---- MODULE Spec2Model ----
(***************************************************************************)
(* A model of sparqlsmith: the pattern tree with parent back-references    *)
(* (query.py), its mutation API (add / remove / instantiate), the          *)
(* serializer, the grammar parser (parser.py) and the isomorphism test.    *)
(*                                                                         *)
(* Python objects live in a heap: a function from node ids to records.     *)
(* A reference is a node id, None is NULL.  Strings that the code inspects *)
(* (terms, by their '?' sigil) are sequences of one-character strings.     *)
(***************************************************************************)
EXTENDS Integers, Sequences, FiniteSets, TLC

(***************************************************************************)
(* Bounds                                                                  *)
(***************************************************************************)
MaxNodes == 4          \* heap cells (queries, patterns, triples, filters)
MaxBGPTriples == 1     \* triples handed to one BGP constructor call
MaxSeqLen == 2         \* elements of a where-clause list given to a constructor
MaxCmpTriples == 2     \* triples per BGP in the compared trees

NULL == 0

(***************************************************************************)
(* Terms: strings as character sequences.  "?a" is <<"?", "a">>.           *)
(***************************************************************************)
Var(n) == <<"?", n>>
Iri(n) == <<":", n>>

\* str.startswith('?')
IsVar(t) == Len(t) > 0 /\ t[1] = "?"

\* value[1:]
StripSigil(t) == SubSeq(t, 2, Len(t))

(***************************************************************************)
(* Where-clause slot of a SPARQLQuery: None, one pattern, or a Python list *)
(***************************************************************************)
WNone == [tag |-> "None"]
WNode(n) == [tag |-> "Node", id |-> n]
WList(s) == [tag |-> "List", items |-> s]

(***************************************************************************)
(* Heap records, one shape per class of query.py                           *)
(***************************************************************************)
FreeCell == [kind |-> "Free"]

TriplePattern(s, p, o, par) ==
    [kind |-> "TriplePattern", subject |-> s, predicate |-> p, object |-> o,
     parent |-> par]

BGP(ts, fs) ==
    [kind |-> "BGP", triples |-> ts, filters |-> fs, parent |-> NULL]

UnionOperator(l, r) ==
    [kind |-> "UnionOperator", left |-> l, right |-> r, parent |-> NULL]

OptionalOperator(b) ==
    [kind |-> "OptionalOperator", bgp |-> b, parent |-> NULL]

GroupGraphPattern(p, fs) ==
    [kind |-> "GroupGraphPattern", pattern |-> p, filters |-> fs,
     parent |-> NULL]

SubQuery(q) == [kind |-> "SubQuery", query |-> q, parent |-> NULL]

Filter(e) == [kind |-> "Filter", expression |-> e, parent |-> NULL]

\* filters is a list or None: hasFilters = FALSE stands for None
SPARQLQuery(proj, w, hasFs, fs, n) ==
    [kind |-> "SPARQLQuery", projection_variables |-> proj,
     where_clause |-> w, hasFilters |-> hasFs,
     filters |-> fs, n_triple_patterns |-> n, parent |-> NULL]

PatternKinds ==
    {"BGP", "UnionOperator", "OptionalOperator", "SubQuery",
     "GroupGraphPattern"}

VARIABLES
    heap,      \* the Python object graph
    last       \* the last API call: [op, arg, ret]; arg and ret are recorded
               \* for the calls whose argument or result a property reads

vars == <<heap, last>>

KindOf(h, n) == IF n = NULL THEN "None" ELSE h[n].kind

IsPattern(h, n) == KindOf(h, n) \in PatternKinds

(***************************************************************************)
(* Allocation: objects get the smallest unused ids                         *)
(***************************************************************************)
EmptyHeap(k) == [n \in 1..k |-> FreeCell]

FreeIds(h) == {n \in DOMAIN h : h[n].kind = "Free"}

RECURSIVE SortedSeq(_)
SortedSeq(S) ==
    IF S = {} THEN <<>>
    ELSE LET m == CHOOSE x \in S : \A y \in S : x <= y
         IN  <<m>> \o SortedSeq(S \ {m})

FreshIds(h, k) == SubSeq(SortedSeq(FreeIds(h)), 1, k)

CanAlloc(h, k) == Cardinality(FreeIds(h)) >= k

SeqRange(s) == {s[i] : i \in 1..Len(s)}

(***************************************************************************)
(* Python ==.  BGP and SPARQLQuery are plain classes (identity); the       *)
(* dataclasses compare their fields: TriplePattern includes _parent (an    *)
(* annotated field), the others do not (their _parent is a class           *)
(* attribute).                                                             *)
(***************************************************************************)
RECURSIVE PyEq(_, _, _)
PyEq(h, a, b) ==
    IF a = NULL \/ b = NULL THEN a = b
    ELSE IF h[a].kind # h[b].kind THEN FALSE
    ELSE CASE h[a].kind \in {"BGP", "SPARQLQuery"} -> a = b
           [] h[a].kind = "TriplePattern" ->
                /\ h[a].subject = h[b].subject
                /\ h[a].predicate = h[b].predicate
                /\ h[a].object = h[b].object
                /\ h[a].parent = h[b].parent
           [] h[a].kind = "UnionOperator" ->
                PyEq(h, h[a].left, h[b].left) /\ PyEq(h, h[a].right, h[b].right)
           [] h[a].kind = "OptionalOperator" -> PyEq(h, h[a].bgp, h[b].bgp)
           [] h[a].kind = "GroupGraphPattern" ->
                /\ PyEq(h, h[a].pattern, h[b].pattern)
                /\ Len(h[a].filters) = Len(h[b].filters)
                /\ \A i \in 1..Len(h[a].filters) :
                      PyEq(h, h[a].filters[i], h[b].filters[i])
           [] h[a].kind = "SubQuery" -> h[a].query = h[b].query
           [] h[a].kind = "Filter" -> h[a].expression = h[b].expression
           [] OTHER -> a = b

\* x in lst
PyIn(h, x, lst) == \E i \in 1..Len(lst) : PyEq(h, lst[i], x)

\* lst.remove(x): drops the first element equal to x
PyListRemove(h, lst, x) ==
    LET i == CHOOSE j \in 1..Len(lst) :
                 /\ PyEq(h, lst[j], x)
                 /\ \A k \in 1..(j - 1) : ~PyEq(h, lst[k], x)
    IN  SubSeq(lst, 1, i - 1) \o SubSeq(lst, i + 1, Len(lst))

(***************************************************************************)
(* SPARQLQuery._count_triple_patterns                                      *)
(***************************************************************************)
RECURSIVE CountTriplePatterns(_, _)
CountTriplePatterns(h, c) ==
    CASE KindOf(h, c) = "BGP" -> Len(h[c].triples)
      [] KindOf(h, c) = "UnionOperator" ->
           CountTriplePatterns(h, h[c].left) + CountTriplePatterns(h, h[c].right)
      [] KindOf(h, c) = "OptionalOperator" -> CountTriplePatterns(h, h[c].bgp)
      [] KindOf(h, c) = "SubQuery" -> h[h[c].query].n_triple_patterns
      [] KindOf(h, c) = "GroupGraphPattern" ->
           CountTriplePatterns(h, h[c].pattern)
      [] OTHER -> 0

RECURSIVE CountList(_, _)
CountList(h, lst) ==
    IF lst = <<>> THEN 0
    ELSE CountTriplePatterns(h, Head(lst)) + CountList(h, Tail(lst))

\* the same function applied to a where_clause slot (None, pattern or list)
CountWhere(h, w) ==
    CASE w.tag = "Node" -> CountTriplePatterns(h, w.id)
      [] w.tag = "List" -> CountList(h, w.items)
      [] OTHER -> 0

(***************************************************************************)
(* SPARQLQuery._set_parent_references: every pattern reached by the        *)
(* recursion gets the QUERY as parent (clause._parent = self), also the    *)
(* patterns nested inside a Union, Optional or Group.                      *)
(***************************************************************************)
SetParentOfAll(h, ids, par) ==
    [n \in DOMAIN h |-> IF n \in SeqRange(ids) THEN [h[n] EXCEPT !.parent = par]
                       ELSE h[n]]

RECURSIVE SetParentReferences(_, _, _)
SetParentReferences(h, q, c) ==
    IF ~IsPattern(h, c) THEN h
    ELSE LET h1 == [h EXCEPT ![c].parent = q]
         IN  CASE h1[c].kind = "BGP" ->
                    SetParentOfAll(SetParentOfAll(h1, h1[c].triples, c),
                                   h1[c].filters, c)
               [] h1[c].kind = "UnionOperator" ->
                    SetParentReferences(SetParentReferences(h1, q, h1[c].left),
                                        q, h1[c].right)
               [] h1[c].kind = "OptionalOperator" ->
                    SetParentReferences(h1, q, h1[c].bgp)
               [] h1[c].kind = "SubQuery" ->
                    [h1 EXCEPT ![h1[c].query].parent = c]
               [] h1[c].kind = "GroupGraphPattern" ->
                    SetParentOfAll(SetParentReferences(h1, q, h1[c].pattern),
                                   h1[c].filters, c)

RECURSIVE SetParentReferencesList(_, _, _)
SetParentReferencesList(h, q, lst) ==
    IF lst = <<>> THEN h
    ELSE SetParentReferencesList(SetParentReferences(h, q, Head(lst)), q,
                                 Tail(lst))

SetParentReferencesWhere(h, q, w) ==
    CASE w.tag = "Node" -> SetParentReferences(h, q, w.id)
      [] w.tag = "List" -> SetParentReferencesList(h, q, w.items)
      [] OTHER -> h

(***************************************************************************)
(* remove().  Each method returns True / False; BGP.remove raises          *)
(* AttributeError when its parent is a GroupGraphPattern (it reads         *)
(* self._parent.left, which a group does not have) before changing         *)
(* anything.  The result is the new heap and the outcome.                  *)
(***************************************************************************)
Ret(h, r) == [h |-> h, ret |-> r]

\* the isinstance(self._parent, SPARQLQuery) branch, the same in every class
RemoveFromQuery(h, n) ==
    LET q == h[n].parent
        w == h[q].where_clause
    IN  IF w.tag = "Node" /\ PyEq(h, w.id, n)
        THEN Ret([h EXCEPT ![q].where_clause = WNone], "True")
        ELSE IF w.tag = "List" /\ PyIn(h, n, w.items)
        THEN Ret([h EXCEPT ![q].where_clause =
                               WList(PyListRemove(h, w.items, n))], "True")
        ELSE Ret(h, "False")

GroupRemove(h, n) ==
    LET p == h[n].parent
    IN  IF p = NULL THEN Ret(h, "False")
        ELSE IF h[p].kind = "SPARQLQuery" THEN RemoveFromQuery(h, n)
        ELSE IF h[p].kind = "GroupGraphPattern" /\ PyEq(h, h[p].pattern, n)
        THEN Ret([h EXCEPT ![p].pattern = NULL], "True")
        ELSE Ret(h, "False")

UnionRemove(h, n) ==
    LET p == h[n].parent
    IN  IF p = NULL THEN Ret(h, "False")
        ELSE IF h[p].kind = "SPARQLQuery" THEN RemoveFromQuery(h, n)
        ELSE IF h[p].kind = "GroupGraphPattern" /\ PyEq(h, h[p].pattern, n)
        THEN Ret(GroupRemove([h EXCEPT ![p].pattern = NULL], p).h, "True")
        ELSE Ret(h, "False")

OptionalRemove(h, n) ==
    LET p == h[n].parent
    IN  IF p = NULL THEN Ret(h, "False")
        ELSE IF h[p].kind = "SPARQLQuery" THEN RemoveFromQuery(h, n)
        ELSE IF h[p].kind = "GroupGraphPattern" /\ PyEq(h, h[p].pattern, n)
        THEN Ret(GroupRemove([h EXCEPT ![p].pattern = NULL], p).h, "True")
        ELSE Ret(h, "False")

BGPRemove(h, n) ==
    LET p == h[n].parent
    IN  IF p = NULL THEN Ret(h, "False")
        ELSE IF h[p].kind = "SPARQLQuery" THEN RemoveFromQuery(h, n)
        ELSE IF h[p].kind = "OptionalOperator"
        THEN IF PyEq(h, h[p].bgp, n)
             THEN Ret(OptionalRemove([h EXCEPT ![p].bgp = NULL], p).h, "True")
             ELSE Ret(h, "False")
        ELSE IF h[p].kind = "GroupGraphPattern"
        THEN Ret(h, "AttributeError")
        ELSE IF h[p].kind = "UnionOperator"
        THEN IF PyEq(h, h[p].left, n)
             THEN Ret(UnionRemove([h EXCEPT ![p].left = NULL], p).h, "True")
             ELSE IF PyEq(h, h[p].right, n)
             THEN Ret(UnionRemove([h EXCEPT ![p].right = NULL], p).h, "True")
             ELSE Ret(h, "False")
        ELSE Ret(h, "False")

SubQueryRemove(h, n) ==
    LET p == h[n].parent
    IN  IF p = NULL THEN Ret(h, "False")
        ELSE IF h[p].kind = "SPARQLQuery" THEN RemoveFromQuery(h, n)
        ELSE IF h[p].kind = "OptionalOperator"
        THEN IF PyEq(h, h[p].bgp, n)
             THEN Ret(OptionalRemove([h EXCEPT ![p].bgp = NULL], p).h, "True")
             ELSE Ret(h, "False")
        ELSE IF h[p].kind = "UnionOperator"
        THEN IF PyEq(h, h[p].left, n)
             THEN Ret(UnionRemove([h EXCEPT ![p].left = NULL], p).h, "True")
             ELSE IF PyEq(h, h[p].right, n)
             THEN Ret(UnionRemove([h EXCEPT ![p].right = NULL], p).h, "True")
             ELSE Ret(h, "False")
        ELSE IF h[p].kind = "GroupGraphPattern"
        THEN IF PyEq(h, h[p].pattern, n)
             THEN Ret(GroupRemove([h EXCEPT ![p].pattern = NULL], p).h, "True")
             ELSE Ret(h, "False")
        ELSE Ret(h, "False")

TriplePatternRemove(h, n) ==
    LET p == h[n].parent
    IN  IF p # NULL /\ PyIn(h, n, h[p].triples)
        THEN Ret([h EXCEPT ![p].triples = PyListRemove(h, h[p].triples, n)],
                 "True")
        ELSE Ret(h, "False")

FilterRemove(h, n) ==
    LET p == h[n].parent
    IN  IF p = NULL THEN Ret(h, "False")
        ELSE IF h[p].kind \in {"BGP", "GroupGraphPattern"}
        THEN IF PyIn(h, n, h[p].filters)
             THEN Ret([h EXCEPT ![p].filters =
                                    PyListRemove(h, h[p].filters, n)], "True")
             ELSE Ret(h, "False")
        ELSE IF h[p].kind = "SPARQLQuery"
        THEN IF h[p].hasFilters /\ PyIn(h, n, h[p].filters)
             THEN Ret([h EXCEPT ![p].filters =
                                    PyListRemove(h, h[p].filters, n)], "True")
             ELSE Ret(h, "False")
        ELSE Ret(h, "False")

\* node.remove(), dispatched on the node's class
RemoveNode(h, n) ==
    CASE h[n].kind = "BGP" -> BGPRemove(h, n)
      [] h[n].kind = "UnionOperator" -> UnionRemove(h, n)
      [] h[n].kind = "OptionalOperator" -> OptionalRemove(h, n)
      [] h[n].kind = "GroupGraphPattern" -> GroupRemove(h, n)
      [] h[n].kind = "SubQuery" -> SubQueryRemove(h, n)
      [] h[n].kind = "TriplePattern" -> TriplePatternRemove(h, n)
      [] h[n].kind = "Filter" -> FilterRemove(h, n)

(***************************************************************************)
(* Which nodes a container holds, and which nodes nothing holds yet        *)
(***************************************************************************)
Children(h, m) ==
    CASE h[m].kind = "BGP" -> SeqRange(h[m].triples) \cup SeqRange(h[m].filters)
      [] h[m].kind = "UnionOperator" -> {h[m].left, h[m].right} \ {NULL}
      [] h[m].kind = "OptionalOperator" -> {h[m].bgp} \ {NULL}
      [] h[m].kind = "GroupGraphPattern" ->
           ({h[m].pattern} \ {NULL}) \cup SeqRange(h[m].filters)
      [] h[m].kind = "SubQuery" -> {h[m].query}
      [] h[m].kind = "SPARQLQuery" ->
           (CASE h[m].where_clause.tag = "Node" -> {h[m].where_clause.id}
              [] h[m].where_clause.tag = "List" ->
                   SeqRange(h[m].where_clause.items)
              [] OTHER -> {}) \cup SeqRange(h[m].filters)
      [] OTHER -> {}

Held(h, n) == \E m \in DOMAIN h : n \in Children(h, m)

\* the nodes of the tree below (and including) n
RECURSIVE Descendants(_, _)
Descendants(h, n) ==
    {n} \cup UNION {Descendants(h, m) : m \in Children(h, n)}

\* a node that was never attached: what the callers pass to constructors
\* and to add(), so that no instance is attached twice
Unattached(h, n) == h[n].parent = NULL /\ ~Held(h, n)

NewPatterns(h) == {n \in DOMAIN h : IsPattern(h, n) /\ Unattached(h, n)}

NewQueries(h) ==
    {n \in DOMAIN h : h[n].kind = "SPARQLQuery" /\ Unattached(h, n)}

Queries(h) == {n \in DOMAIN h : h[n].kind = "SPARQLQuery"}

(***************************************************************************)
(* Inputs                                                                  *)
(***************************************************************************)
TripleChoices == {<<Var("a"), Iri("p"), Var("b")>>}

FilterChoices == {<<"?", "b", " ", ">", " ", "5">>}

\* projection_variables defaults to ['*']
DefaultProjection == << <<"*">> >>

TripleLists ==
    UNION {[1..k -> TripleChoices] : k \in 0..MaxBGPTriples}

\* injective sequences of length k over S
InjSeqs(S, k) == {f \in [1..k -> S] : \A i, j \in 1..k : i # j => f[i] # f[j]}

Called(op, a, r) == [op |-> op, arg |-> a, ret |-> r]

(***************************************************************************)
(* Constructors.  Each returns the heap after the call; the new object is  *)
(* NewId of the heap before the call.                                      *)
(***************************************************************************)
NewId(h) == FreshIds(h, 1)[1]

\* BGP.__init__(triples): the triples' parent is the new BGP
AllocBGP(h, ts) ==
    LET ids == FreshIds(h, 1 + Len(ts))
        b == ids[1]
        tids == Tail(ids)
    IN  [n \in DOMAIN h |->
           IF n = b THEN BGP(tids, <<>>)
           ELSE IF \E i \in 1..Len(tids) : tids[i] = n
           THEN LET i == CHOOSE j \in 1..Len(tids) : tids[j] = n
                IN  TriplePattern(ts[i][1], ts[i][2], ts[i][3], b)
           ELSE h[n]]

\* hasattr(child, '_parent'): None has no _parent
SetParent(h, c, par) == IF c = NULL THEN h ELSE [h EXCEPT ![c].parent = par]

\* UnionOperator(left, right) with __post_init__
AllocUnion(h, l, r) ==
    LET u == NewId(h)
    IN  SetParent(SetParent([h EXCEPT ![u] = UnionOperator(l, r)], l, u), r, u)

\* OptionalOperator(bgp) with __post_init__
AllocOptional(h, c) ==
    LET o == NewId(h)
    IN  SetParent([h EXCEPT ![o] = OptionalOperator(c)], c, o)

\* GroupGraphPattern(pattern) with __post_init__
AllocGroup(h, c) ==
    LET g == NewId(h)
    IN  SetParent([h EXCEPT ![g] = GroupGraphPattern(c, <<>>)], c, g)

\* SubQuery(query) with __post_init__
AllocSubQuery(h, q) ==
    LET sq == NewId(h)
    IN  [h EXCEPT ![sq] = SubQuery(q), ![q].parent = sq]

\* SPARQLQuery.__init__(projection_variables = proj, where_clause = w)
AllocQuery(h, proj, w) ==
    LET q == NewId(h)
        h1 == [h EXCEPT ![q] = SPARQLQuery(proj, w, FALSE, <<>>, 0)]
        h2 == SetParentReferencesWhere(h1, q, w)
    IN  [h2 EXCEPT ![q].n_triple_patterns = CountWhere(h2, w)]

NewBGP(ts) ==
    /\ CanAlloc(heap, 1 + Len(ts))
    /\ heap' = AllocBGP(heap, ts)
    /\ last' = Called("BGP", NULL, "None")

NewUnion(l, r) ==
    /\ CanAlloc(heap, 1)
    /\ l # r
    /\ heap' = AllocUnion(heap, l, r)
    /\ last' = Called("UnionOperator", NULL, "None")

NewOptional(c) ==
    /\ CanAlloc(heap, 1)
    /\ heap' = AllocOptional(heap, c)
    /\ last' = Called("OptionalOperator", NULL, "None")

NewGroup(c) ==
    /\ CanAlloc(heap, 1)
    /\ heap' = AllocGroup(heap, c)
    /\ last' = Called("GroupGraphPattern", NULL, "None")

NewSubQuery(q) ==
    /\ CanAlloc(heap, 1)
    /\ heap' = AllocSubQuery(heap, q)
    /\ last' = Called("SubQuery", NULL, "None")

NewQuery(proj, w) ==
    /\ CanAlloc(heap, 1)
    /\ heap' = AllocQuery(heap, proj, w)
    /\ last' = Called("SPARQLQuery", NULL, "None")

(***************************************************************************)
(* add()                                                                   *)
(***************************************************************************)
\* an add that would put the component in front of the patterns held
QueryAddPatternInFront(h, q, c) ==
    LET w == h[q].where_clause
        w2 == CASE w.tag = "None" -> WNode(c)
                [] w.tag = "List" -> WList(<<c>> \o w.items)
                [] w.tag = "Node" -> WList(<<c, w.id>>)
    IN  [h EXCEPT ![q].where_clause = w2, ![c].parent = q]

\* SPARQLQuery.add(component), component a pattern
QueryAddPattern(h, q, c) ==
    LET w == h[q].where_clause
        w2 == CASE w.tag = "None" -> WNode(c)
                [] w.tag = "List" -> WList(Append(w.items, c))
                [] w.tag = "Node" -> WList(<<w.id, c>>)
        h1 == [h EXCEPT ![q].where_clause = w2, ![c].parent = q]
    IN  [h1 EXCEPT ![q].n_triple_patterns = CountWhere(h1, w2)]

QueryAdd(q, c) ==
    /\ heap' = QueryAddPattern(heap, q, c)
    /\ last' = Called("SPARQLQuery.add", NULL, "None")

\* SubQuery.add(component) delegates to the nested query
SubQueryAdd(sq, c) ==
    /\ heap' = QueryAddPattern(heap, heap[sq].query, c)
    /\ last' = Called("SubQuery.add", NULL, "None")

\* SPARQLQuery.add(str): a filter expression
QueryAddFilter(q, e) ==
    /\ CanAlloc(heap, 1)
    /\ LET f == FreshIds(heap, 1)[1]
       IN  /\ heap' = [heap EXCEPT
                         ![f] = [Filter(e) EXCEPT !.parent = q],
                         ![q].hasFilters = TRUE,
                         ![q].filters = Append(heap[q].filters, f)]
           /\ last' = Called("SPARQLQuery.add", NULL, "None")

\* GroupGraphPattern.add(component), component a pattern: only an empty
\* group takes one (TypeError otherwise, nothing changed)
GroupAdd(g, c) ==
    /\ heap[g].pattern = NULL
    /\ heap' = [heap EXCEPT ![g].pattern = c, ![c].parent = g]
    /\ last' = Called("GroupGraphPattern.add", NULL, "None")

\* BGP.add((s, p, o))
BGPAdd(b, t) ==
    /\ CanAlloc(heap, 1)
    /\ LET n == FreshIds(heap, 1)[1]
       IN  /\ heap' = [heap EXCEPT
                         ![n] = TriplePattern(t[1], t[2], t[3], b),
                         ![b].triples = Append(heap[b].triples, n)]
           /\ last' = Called("BGP.add", NULL, "None")

\* BGP.add(str): a filter expression
BGPAddFilter(b, e) ==
    /\ CanAlloc(heap, 1)
    /\ LET f == FreshIds(heap, 1)[1]
       IN  /\ heap' = [heap EXCEPT
                         ![f] = [Filter(e) EXCEPT !.parent = b],
                         ![b].filters = Append(heap[b].filters, f)]
           /\ last' = Called("BGP.add", NULL, "None")

\* node.remove()
Remove(n) ==
    /\ LET r == RemoveNode(heap, n)
       IN  /\ heap' = r.h
           /\ last' = Called("remove", n, r.ret)

(***************************************************************************)
(* The mutation model: any interleaving of constructor, add and remove     *)
(* calls in which the caller attaches no instance twice                    *)
(***************************************************************************)
Init ==
    /\ heap = EmptyHeap(MaxNodes)
    /\ last = Called("init", NULL, "None")

Removable(h) ==
    {n \in DOMAIN h : h[n].kind \in PatternKinds \cup {"TriplePattern", "Filter"}}

WhereArgs(h) ==
    {WNone} \cup {WNode(c) : c \in NewPatterns(h)}
            \cup {WList(s) : s \in UNION {InjSeqs(NewPatterns(h), k) :
                                            k \in 2..MaxSeqLen}}

Next ==
    \/ \E ts \in TripleLists : NewBGP(ts)
    \/ \E l, r \in NewPatterns(heap) : NewUnion(l, r)
    \/ \E c \in NewPatterns(heap) : NewOptional(c)
    \/ \E c \in NewPatterns(heap) : NewGroup(c)
    \/ \E q \in NewQueries(heap) : NewSubQuery(q)
    \/ \E w \in WhereArgs(heap) : NewQuery(DefaultProjection, w)
    \/ \E q \in Queries(heap), c \in NewPatterns(heap) :
          q \notin Descendants(heap, c) /\ QueryAdd(q, c)
    \/ \E sq \in DOMAIN heap, c \in NewPatterns(heap) :
          /\ heap[sq].kind = "SubQuery"
          /\ sq \notin Descendants(heap, c)
          /\ SubQueryAdd(sq, c)
    \/ \E q \in Queries(heap), e \in FilterChoices : QueryAddFilter(q, e)
    \/ \E g \in DOMAIN heap, c \in NewPatterns(heap) :
          /\ heap[g].kind = "GroupGraphPattern"
          /\ g \notin Descendants(heap, c)
          /\ GroupAdd(g, c)
    \/ \E b \in DOMAIN heap, t \in TripleChoices :
          heap[b].kind = "BGP" /\ BGPAdd(b, t)
    \/ \E b \in DOMAIN heap, e \in FilterChoices :
          heap[b].kind = "BGP" /\ BGPAddFilter(b, e)
    \/ \E n \in Removable(heap) : Remove(n)

Spec == Init /\ [][Next]_vars

(***************************************************************************)
(* Pattern trees as values.  is_isomorphic, the serializer and the parser  *)
(* read only the structure of a tree, never the identity of its nodes, so  *)
(* they are defined on the value of a tree; ClauseOf reads that value off  *)
(* the heap.                                                               *)
(***************************************************************************)
TNone == [kind |-> "None"]
TBGP(ts, fs) == [kind |-> "BGP", triples |-> ts, filters |-> fs]
TUnion(l, r) == [kind |-> "UnionOperator", left |-> l, right |-> r]
TOptional(b) == [kind |-> "OptionalOperator", bgp |-> b]
TGroup(p, fs) == [kind |-> "GroupGraphPattern", pattern |-> p, filters |-> fs]
TSubQuery(q) == [kind |-> "SubQuery", query |-> q]
TList(items) == [kind |-> "list", items |-> items]
TQuery(w) == [kind |-> "SPARQLQuery", where_clause |-> w]

RECURSIVE ClauseOf(_, _), WhereOf(_, _)
ClauseOf(h, c) ==
    CASE KindOf(h, c) = "None" -> TNone
      [] KindOf(h, c) = "BGP" ->
           TBGP([i \in 1..Len(h[c].triples) |->
                   LET t == h[h[c].triples[i]]
                   IN  <<t.subject, t.predicate, t.object>>],
                [i \in 1..Len(h[c].filters) |-> h[h[c].filters[i]].expression])
      [] KindOf(h, c) = "UnionOperator" ->
           TUnion(ClauseOf(h, h[c].left), ClauseOf(h, h[c].right))
      [] KindOf(h, c) = "OptionalOperator" -> TOptional(ClauseOf(h, h[c].bgp))
      [] KindOf(h, c) = "GroupGraphPattern" ->
           TGroup(ClauseOf(h, h[c].pattern),
                  [i \in 1..Len(h[c].filters) |-> h[h[c].filters[i]].expression])
      [] KindOf(h, c) = "SubQuery" -> TSubQuery(TQuery(WhereOf(h, h[c].query)))

WhereOf(h, q) ==
    LET w == h[q].where_clause
    IN  CASE w.tag = "Node" -> ClauseOf(h, w.id)
          [] w.tag = "List" ->
               TList([i \in 1..Len(w.items) |-> ClauseOf(h, w.items[i])])
          [] OTHER -> TNone

QueryOf(h, q) == TQuery(WhereOf(h, q))

(***************************************************************************)
(* is_isomorphic.  The variable mapping (a Python dict, mutated in place)  *)
(* is a set of pairs <<source name, target name>>; every comparison        *)
(* returns its verdict and the mapping as the call leaves it.              *)
(***************************************************************************)
Verdict(ok, m) == [ok |-> ok, m |-> m]

HasKey(m, k) == \E p \in m : p[1] = k
Lookup(m, k) == (CHOOSE p \in m : p[1] = k)[2]
Values(m) == {p[2] : p \in m}

\* mapping.update(other)
DictUpdate(m, other) == {p \in m : ~HasKey(other, p[1])} \cup other

\* a term comparison that would bind a target variable twice
CompareTermsAnyTarget(term1, term2, m) ==
    IF IsVar(term1) /\ IsVar(term2)
    THEN LET var1 == StripSigil(term1)
             var2 == StripSigil(term2)
         IN  IF HasKey(m, var1) THEN Verdict(Lookup(m, var1) = var2, m)
             ELSE Verdict(TRUE, m \cup {<<var1, var2>>})
    ELSE Verdict(term1 = term2, m)

\* SPARQLQuery._compare_terms
CompareTerms(term1, term2, m) ==
    IF IsVar(term1) /\ IsVar(term2)
    THEN LET var1 == StripSigil(term1)
             var2 == StripSigil(term2)
         IN  IF HasKey(m, var1) THEN Verdict(Lookup(m, var1) = var2, m)
             ELSE IF var2 \in Values(m) THEN Verdict(FALSE, m)
             ELSE Verdict(TRUE, m \cup {<<var1, var2>>})
    ELSE Verdict(term1 = term2, m)

\* SPARQLQuery._compare_triple_patterns: subject and predicate and object
CompareTriplePatterns(tp1, tp2, m) ==
    LET s == CompareTerms(tp1[1], tp2[1], m)
    IN  IF ~s.ok THEN s
        ELSE LET p == CompareTerms(tp1[2], tp2[2], s.m)
             IN  IF ~p.ok THEN p
                 ELSE CompareTerms(tp1[3], tp2[3], p.m)

\* a search that would try every candidate on the one shared mapping: the
\* bindings of a candidate that failed stay
RECURSIVE MatchTriplesOnSharedMapping(_, _, _, _, _, _)
MatchTriplesOnSharedMapping(ts1, ts2, index1, from, used, m) ==
    IF index1 = Len(ts1) + 1 THEN Verdict(TRUE, m)
    ELSE IF from > Len(ts2) THEN Verdict(FALSE, m)
    ELSE IF from \in used
    THEN MatchTriplesOnSharedMapping(ts1, ts2, index1, from + 1, used, m)
    ELSE LET t == CompareTriplePatterns(ts1[index1], ts2[from], m)
         IN  IF t.ok
             THEN LET rest == MatchTriplesOnSharedMapping(ts1, ts2, index1 + 1, 1,
                                                          used \cup {from}, t.m)
                  IN  IF rest.ok
                      THEN rest
                      ELSE MatchTriplesOnSharedMapping(ts1, ts2, index1, from + 1,
                                                       used, rest.m)
             ELSE MatchTriplesOnSharedMapping(ts1, ts2, index1, from + 1, used, t.m)

\* match_triples(index1, mapping) of _compare_bgps; the loop over index2
\* continues at index2 = from.  Indices are 1-based here.
RECURSIVE MatchTriples(_, _, _, _, _, _)
MatchTriples(ts1, ts2, index1, from, used, m) ==
    IF index1 = Len(ts1) + 1 THEN Verdict(TRUE, m)
    ELSE IF from > Len(ts2) THEN Verdict(FALSE, m)
    ELSE IF from \in used
    THEN MatchTriples(ts1, ts2, index1, from + 1, used, m)
    ELSE LET t == CompareTriplePatterns(ts1[index1], ts2[from], m)
         IN  IF t.ok
             THEN LET rest == MatchTriples(ts1, ts2, index1 + 1, 1,
                                           used \cup {from}, t.m)
                  IN  IF rest.ok
                      THEN Verdict(TRUE, DictUpdate(m, rest.m))
                      ELSE MatchTriples(ts1, ts2, index1, from + 1, used, m)
             ELSE MatchTriples(ts1, ts2, index1, from + 1, used, m)

\* a comparison of BGPs that would also look at their filters
CompareBGPsAndFilters(bgp1, bgp2, m) ==
    IF bgp1.filters # bgp2.filters THEN Verdict(FALSE, m)
    ELSE IF Len(bgp1.triples) # Len(bgp2.triples) THEN Verdict(FALSE, m)
    ELSE MatchTriples(bgp1.triples, bgp2.triples, 1, 1, {}, m)

\* SPARQLQuery._compare_bgps
CompareBGPs(bgp1, bgp2, m) ==
    IF Len(bgp1.triples) # Len(bgp2.triples) THEN Verdict(FALSE, m)
    ELSE MatchTriples(bgp1.triples, bgp2.triples, 1, 1, {}, m)

RECURSIVE CompareClauses(_, _, _), IsIsomorphic(_, _)

\* a list comparison that would pair element i with the element i places
\* from the end
RECURSIVE CompareListsReversed(_, _, _, _)
CompareListsReversed(l1, l2, i, m) ==
    IF i > Len(l1) THEN Verdict(TRUE, m)
    ELSE LET r == CompareClauses(l1[i], l2[Len(l2) + 1 - i], m)
         IN  IF ~r.ok THEN Verdict(FALSE, r.m)
             ELSE CompareListsReversed(l1, l2, i + 1, r.m)

\* the list case of _compare_clauses: position by position, from index i
RECURSIVE CompareLists(_, _, _, _)
CompareLists(l1, l2, i, m) ==
    IF i > Len(l1) THEN Verdict(TRUE, m)
    ELSE LET r == CompareClauses(l1[i], l2[i], m)
         IN  IF ~r.ok THEN Verdict(FALSE, r.m)
             ELSE CompareLists(l1, l2, i + 1, r.m)

\* SPARQLQuery._compare_unions
CompareUnions(union1, union2, m) ==
    LET ll == CompareClauses(union1.left, union2.left, m)
        rr == CompareClauses(union1.right, union2.right, ll.m)
        lr == CompareClauses(union1.left, union2.right, m)
        rl == CompareClauses(union1.right, union2.left, lr.m)
    IN  IF ll.ok /\ rr.ok THEN Verdict(TRUE, DictUpdate(m, rr.m))
        ELSE IF lr.ok /\ rl.ok THEN Verdict(TRUE, DictUpdate(m, rl.m))
        ELSE Verdict(FALSE, m)

\* SPARQLQuery._compare_optionals
CompareOptionals(opt1, opt2, m) == CompareClauses(opt1.bgp, opt2.bgp, m)

\* SPARQLQuery._compare_clauses
CompareClauses(clause1, clause2, m) ==
    IF clause1.kind # clause2.kind THEN Verdict(FALSE, m)
    ELSE CASE clause1.kind = "BGP" -> CompareBGPs(clause1, clause2, m)
           [] clause1.kind = "UnionOperator" -> CompareUnions(clause1, clause2, m)
           [] clause1.kind = "OptionalOperator" ->
                CompareOptionals(clause1, clause2, m)
           [] clause1.kind = "SubQuery" ->
                Verdict(IsIsomorphic(clause1.query, clause2.query), m)
           [] clause1.kind = "GroupGraphPattern" ->
                CompareClauses(clause1.pattern, clause2.pattern, m)
           [] clause1.kind = "list" ->
                IF Len(clause1.items) # Len(clause2.items) THEN Verdict(FALSE, m)
                ELSE CompareLists(clause1.items, clause2.items, 1, m)
           [] OTHER -> Verdict(FALSE, m)

\* SPARQLQuery.is_isomorphic
IsIsomorphic(query, other) ==
    CompareClauses(query.where_clause, other.where_clause, {}).ok

(***************************************************************************)
(* The build-only model: constructors and add(), no remove()               *)
(***************************************************************************)
NextBuild ==
    \/ \E ts \in TripleLists : NewBGP(ts)
    \/ \E l, r \in NewPatterns(heap) : NewUnion(l, r)
    \/ \E c \in NewPatterns(heap) : NewOptional(c)
    \/ \E c \in NewPatterns(heap) : NewGroup(c)
    \/ \E q \in NewQueries(heap) : NewSubQuery(q)
    \/ \E w \in WhereArgs(heap) : NewQuery(DefaultProjection, w)
    \/ \E q \in Queries(heap), c \in NewPatterns(heap) :
          q \notin Descendants(heap, c) /\ QueryAdd(q, c)
    \/ \E sq \in DOMAIN heap, c \in NewPatterns(heap) :
          /\ heap[sq].kind = "SubQuery"
          /\ sq \notin Descendants(heap, c)
          /\ SubQueryAdd(sq, c)
    \/ \E q \in Queries(heap), e \in FilterChoices : QueryAddFilter(q, e)
    \/ \E b \in DOMAIN heap, t \in TripleChoices :
          heap[b].kind = "BGP" /\ BGPAdd(b, t)
    \/ \E b \in DOMAIN heap, e \in FilterChoices :
          heap[b].kind = "BGP" /\ BGPAddFilter(b, e)

SpecBuild == Init /\ [][NextBuild]_vars

(***************************************************************************)
(* Properties of the mutation API                                          *)
(***************************************************************************)
NullChild(h, n) ==
    \/ h[n].kind = "UnionOperator" /\ (h[n].left = NULL \/ h[n].right = NULL)
    \/ h[n].kind = "OptionalOperator" /\ h[n].bgp = NULL
    \/ h[n].kind = "GroupGraphPattern" /\ h[n].pattern = NULL

\* C2: a remove() call that returns True on a node of a tree rooted at a
\* Query, a tree in which no wrapper had a null child, leaves no Optional,
\* Union or Group reachable from that Query with a null child.
C2_NoNullChildAfterRemove ==
    [][(last'.op = "remove" /\ last'.ret = "True") =>
          \A q \in Queries(heap) :
              ( /\ last'.arg \in Descendants(heap, q)
                /\ \A n \in Descendants(heap, q) : ~NullChild(heap, n) )
              => \A n \in Descendants(heap', q) : ~NullChild(heap', n)
      ]_vars

\* C3: after construction and add() calls, every node reachable from a Query
\* has the container that directly holds it as its parent.
C3_ParentIsContainer ==
    \A q \in Queries(heap) :
        \A m \in Descendants(heap, q) :
            \A n \in Children(heap, m) : heap[n].parent = m

\* the Query q holds the two-element sequence [BGP, Optional(b2)], b2 a BGP
IsBgpThenOptional(h, q, b2) ==
    LET w == h[q].where_clause
    IN  /\ w.tag = "List"
        /\ Len(w.items) = 2
        /\ h[w.items[1]].kind = "BGP"
        /\ h[w.items[2]].kind = "OptionalOperator"
        /\ h[w.items[2]].bgp = b2
        /\ h[b2].kind = "BGP"

\* C4: a remove() that takes an element out of a Query's top-level sequence
\* never leaves a one-element sequence (the remaining element becomes the
\* where-pattern itself); and remove() on b2 in [BGP, Optional(b2)] returns
\* True and leaves the first BGP as the where-pattern, however the Query was
\* built.
C4_SequenceCollapses ==
    [][\A q \in Queries(heap) :
          /\ ( /\ last'.op = "remove"
               /\ heap[q].where_clause.tag = "List"
               /\ heap'[q].where_clause # heap[q].where_clause
               /\ heap'[q].where_clause.tag = "List" )
             => Len(heap'[q].where_clause.items) # 1
          /\ \A b2 \in DOMAIN heap :
               ( /\ IsBgpThenOptional(heap, q, b2)
                 /\ last' = Called("remove", b2, last'.ret)
                 /\ last' # last )
               => /\ last'.ret = "True"
                  /\ heap'[q].where_clause = WNode(heap[q].where_clause.items[1])
      ]_vars

\* the structural triple count of a pattern tree
RECURSIVE TripleCount(_)
TripleCount(t) ==
    CASE t.kind = "BGP" -> Len(t.triples)
      [] t.kind = "UnionOperator" -> TripleCount(t.left) + TripleCount(t.right)
      [] t.kind = "OptionalOperator" -> TripleCount(t.bgp)
      [] t.kind = "GroupGraphPattern" -> TripleCount(t.pattern)
      [] t.kind = "SubQuery" -> TripleCount(t.query.where_clause)
      [] t.kind = "list" ->
           IF t.items = <<>> THEN 0
           ELSE TripleCount(Head(t.items)) + TripleCount(TList(Tail(t.items)))
      [] OTHER -> 0

\* C10: n_triple_patterns is the structural triple count of the current
\* where-pattern, at any time.
C10_CountIsStructural ==
    \A q \in Queries(heap) :
        heap[q].n_triple_patterns = TripleCount(WhereOf(heap, q))

\* C5 (on the trees the mutation API produces): every Query is isomorphic
\* to itself.
C5_ReflexiveOnBuiltQueries ==
    \A q \in Queries(heap) : IsIsomorphic(QueryOf(heap, q), QueryOf(heap, q))

(***************************************************************************)
(* instantiate.  A mapping_dict is a set of pairs <<name, value>>.         *)
(***************************************************************************)
\* SPARQLQuery._replace_variable
ReplaceVariable(value, md) ==
    IF IsVar(value) /\ HasKey(md, StripSigil(value))
    THEN <<"<">> \o Lookup(md, StripSigil(value)) \o <<">">>
    ELSE value

RECURSIVE InstantiateClause(_, _, _, _), CollectVariables(_, _)

\* SPARQLQuery._collect_variables (a Filter is never a where-pattern, so
\* the trailing expression scan adds nothing)
CollectVariables(h, c) ==
    CASE KindOf(h, c) = "BGP" ->
           UNION {{t \in {h[n].subject, h[n].predicate, h[n].object} : IsVar(t)} :
                    n \in SeqRange(h[c].triples)}
      [] KindOf(h, c) = "UnionOperator" ->
           CollectVariables(h, h[c].left) \cup CollectVariables(h, h[c].right)
      [] KindOf(h, c) = "OptionalOperator" -> CollectVariables(h, h[c].bgp)
      [] KindOf(h, c) = "SubQuery" ->
           LET w == h[h[c].query].where_clause
           IN  CASE w.tag = "Node" -> CollectVariables(h, w.id)
                 [] w.tag = "List" ->
                      UNION {CollectVariables(h, x) : x \in SeqRange(w.items)}
                 [] OTHER -> {}
      [] OTHER -> {}

\* SPARQLQuery.get_all_variables
GetAllVariables(h, q) ==
    LET w == h[q].where_clause
    IN  CASE w.tag = "Node" -> CollectVariables(h, w.id)
          [] w.tag = "List" ->
               UNION {CollectVariables(h, x) : x \in SeqRange(w.items)}
          [] OTHER -> {}

\* list(a_set): the elements in the iteration order of the set, which the
\* caller cannot control; order lists every term once
ListOfSet(S, order) == SelectSeq(order, LAMBDA x : x \in S)

\* the projection update at the end of SPARQLQuery.instantiate
InstantiateProjection(h, q, md, order) ==
    IF h[q].projection_variables = DefaultProjection THEN h
    ELSE LET kept == SelectSeq(h[q].projection_variables,
                               LAMBDA v : IsVar(v) /\ ~HasKey(md, StripSigil(v)))
         IN  [h EXCEPT ![q].projection_variables =
                 IF kept # <<>> THEN kept
                 ELSE ListOfSet(GetAllVariables(h, q), order)]

RECURSIVE InstantiateList(_, _, _, _, _)
InstantiateList(h, items, i, md, order) ==
    IF i > Len(items) THEN h
    ELSE InstantiateList(InstantiateClause(h, items[i], md, order),
                         items, i + 1, md, order)

\* SPARQLQuery.instantiate on the where slot w of Query q
InstantiateQuery(h, q, md, order) ==
    LET w == h[q].where_clause
        h1 == CASE w.tag = "Node" -> InstantiateClause(h, w.id, md, order)
                [] w.tag = "List" -> InstantiateList(h, w.items, 1, md, order)
                [] OTHER -> h
    IN  InstantiateProjection(h1, q, md, order)

\* SPARQLQuery._instantiate_clause
InstantiateClause(h, c, md, order) ==
    CASE KindOf(h, c) = "BGP" ->
           [n \in DOMAIN h |->
              IF n \in SeqRange(h[c].triples)
              THEN [h[n] EXCEPT !.subject = ReplaceVariable(@, md),
                                !.predicate = ReplaceVariable(@, md),
                                !.object = ReplaceVariable(@, md)]
              ELSE h[n]]
      [] KindOf(h, c) = "UnionOperator" ->
           InstantiateClause(InstantiateClause(h, h[c].left, md, order),
                             h[c].right, md, order)
      [] KindOf(h, c) = "OptionalOperator" ->
           InstantiateClause(h, h[c].bgp, md, order)
      [] KindOf(h, c) = "SubQuery" -> InstantiateQuery(h, h[c].query, md, order)
      [] OTHER -> h

Instantiate(q, md, order) ==
    /\ heap' = InstantiateQuery(heap, q, md, order)
    /\ last' = Called("instantiate", <<q, md>>, "self")

(***************************************************************************)
(* The instantiation model: trees built by the constructors, then          *)
(* instantiate() calls                                                     *)
(***************************************************************************)
ProjectionChoices == {DefaultProjection, <<Var("a")>>}

MappingChoices ==
    { {<< <<"a">>, <<"x">> >>},
      {<< <<"b">>, <<"y">> >>},
      {<< <<"a">>, <<"x">> >>, << <<"b">>, <<"y">> >>},
      {<< <<"b">>, <<"<", "z", ">">> >>} }

\* the iteration orders of a set of the variables in use
SetOrders == { <<Var("a"), Var("b")>>, <<Var("b"), Var("a")>> }

NextInst ==
    \/ \E ts \in TripleLists : NewBGP(ts)
    \/ \E l, r \in NewPatterns(heap) : NewUnion(l, r)
    \/ \E c \in NewPatterns(heap) : NewOptional(c)
    \/ \E c \in NewPatterns(heap) : NewGroup(c)
    \/ \E q \in NewQueries(heap) : NewSubQuery(q)
    \/ \E w \in WhereArgs(heap), proj \in ProjectionChoices : NewQuery(proj, w)
    \/ \E q \in Queries(heap), md \in MappingChoices, order \in SetOrders :
          Instantiate(q, md, order)

SpecInst == Init /\ [][NextInst]_vars

\* C9: after instantiate(mapping), no subject, predicate or object of a
\* TriplePattern reachable from the Query is a variable whose name is a key
\* of the mapping.
C9_InstantiateReachesEveryTriple ==
    last.op = "instantiate" =>
        \A n \in Descendants(heap, last.arg[1]) :
            heap[n].kind = "TriplePattern" =>
                \A t \in {heap[n].subject, heap[n].predicate, heap[n].object} :
                    ~(IsVar(t) /\ HasKey(last.arg[2], StripSigil(t)))

(***************************************************************************)
(* The comparison model: two Queries are drawn from a family of trees and  *)
(* is_isomorphic is called on them                                         *)
(***************************************************************************)
CmpVarNames == {<<"a">>, <<"b">>}

CmpTriples ==
    { <<Var("a"), Iri("p"), Iri("o")>>,
      <<Var("b"), Iri("p"), Iri("o")>>,
      <<Var("a"), Iri("q"), Iri("o")>> }

CmpBGPs ==
    {TBGP(ts, <<>>) :
       ts \in UNION {InjSeqs(CmpTriples, k) : k \in 1..MaxCmpTriples}}

CmpSingles == {TBGP(<<t>>, <<>>) : t \in CmpTriples}

CmpUnions == {TUnion(l, r) : l \in CmpSingles, r \in CmpSingles}

CmpTrees ==
    CmpBGPs
    \cup {TOptional(b) : b \in CmpSingles}
    \cup {TGroup(b, <<>>) : b \in CmpSingles}
    \cup CmpUnions
    \cup {TList(<<l, r>>) : l \in CmpBGPs, r \in CmpSingles}
    \cup {TUnion(u, c) : u \in CmpUnions, c \in CmpSingles}
    \cup {TOptional(u) : u \in CmpUnions}

InitCmp ==
    /\ heap = EmptyHeap(MaxNodes)
    /\ \E a \in CmpTrees, b \in CmpTrees :
          last = Called("input", <<TQuery(a), TQuery(b)>>, "None")

IsIsomorphicCall ==
    /\ last.op = "input"
    /\ last' = Called("is_isomorphic", last.arg,
                      IsIsomorphic(last.arg[1], last.arg[2]))
    /\ UNCHANGED heap

NextCmp == IsIsomorphicCall

SpecCmp == InitCmp /\ [][NextCmp]_vars

\* the variable names of a tree
RECURSIVE VarNamesOf(_)
VarNamesOf(t) ==
    CASE t.kind = "BGP" ->
           UNION {{StripSigil(x) : x \in {y \in SeqRange(tp) : IsVar(y)}} :
                    tp \in SeqRange(t.triples)}
      [] t.kind = "UnionOperator" -> VarNamesOf(t.left) \cup VarNamesOf(t.right)
      [] t.kind = "OptionalOperator" -> VarNamesOf(t.bgp)
      [] t.kind = "GroupGraphPattern" -> VarNamesOf(t.pattern)
      [] t.kind = "list" -> UNION {VarNamesOf(x) : x \in SeqRange(t.items)}
      [] OTHER -> {}

\* a term under the renaming r (a function on variable names)
RenameTerm(x, r) == IF IsVar(x) THEN <<"?">> \o r[StripSigil(x)] ELSE x

RenameTriple(tp, r) ==
    <<RenameTerm(tp[1], r), RenameTerm(tp[2], r), RenameTerm(tp[3], r)>>

Bijections(n) == {f \in [1..n -> 1..n] : \A i, j \in 1..n : i # j => f[i] # f[j]}

\* the trees are structurally identical under the renaming r: same node
\* kinds, constants equal, the triples of a BGP matched one-to-one in any
\* order, UNION branches in either order, sequences position by position
RECURSIVE Identical(_, _, _)
Identical(t1, t2, r) ==
    /\ t1.kind = t2.kind
    /\ CASE t1.kind = "BGP" ->
              /\ Len(t1.triples) = Len(t2.triples)
              /\ \E f \in Bijections(Len(t1.triples)) :
                    \A i \in 1..Len(t1.triples) :
                        RenameTriple(t1.triples[i], r) = t2.triples[f[i]]
         [] t1.kind = "UnionOperator" ->
              \/ Identical(t1.left, t2.left, r) /\ Identical(t1.right, t2.right, r)
              \/ Identical(t1.left, t2.right, r) /\ Identical(t1.right, t2.left, r)
         [] t1.kind = "OptionalOperator" -> Identical(t1.bgp, t2.bgp, r)
         [] t1.kind = "GroupGraphPattern" -> Identical(t1.pattern, t2.pattern, r)
         [] t1.kind = "list" ->
              /\ Len(t1.items) = Len(t2.items)
              /\ \A i \in 1..Len(t1.items) : Identical(t1.items[i], t2.items[i], r)
         [] OTHER -> FALSE

InjectiveRenamings(S, T) ==
    {r \in [S -> T] : \A x, y \in S : x # y => r[x] # r[y]}

ExistsMapping(t1, t2) ==
    \E r \in InjectiveRenamings(VarNamesOf(t1), VarNamesOf(t2)) :
        Identical(t1, t2, r)

\* C1: is_isomorphic returns true if and only if there is an injective
\* mapping of the first tree's variable names to the second's under which
\* the two trees are structurally identical.
C1_IsomorphicIffMappingExists ==
    last.op = "is_isomorphic" =>
        (last.ret <=> ExistsMapping(last.arg[1].where_clause,
                                    last.arg[2].where_clause))

\* the trees that differ from t by the order of the triples of one BGP
RECURSIVE PermuteOneBGP(_)
PermuteOneBGP(t) ==
    CASE t.kind = "BGP" ->
           {[t EXCEPT !.triples = [i \in 1..Len(t.triples) |-> t.triples[f[i]]]] :
              f \in Bijections(Len(t.triples))}
      [] t.kind = "UnionOperator" ->
           {[t EXCEPT !.left = x] : x \in PermuteOneBGP(t.left)}
           \cup {[t EXCEPT !.right = x] : x \in PermuteOneBGP(t.right)}
      [] t.kind = "OptionalOperator" ->
           {[t EXCEPT !.bgp = x] : x \in PermuteOneBGP(t.bgp)}
      [] t.kind = "GroupGraphPattern" ->
           {[t EXCEPT !.pattern = x] : x \in PermuteOneBGP(t.pattern)}
      [] t.kind = "list" ->
           UNION {{[t EXCEPT !.items[i] = x] : x \in PermuteOneBGP(t.items[i])} :
                    i \in 1..Len(t.items)}
      [] OTHER -> {t}

\* C6: permuting the triples of one BGP of either Query never changes the
\* value of is_isomorphic.
C6_TripleOrderInsensitive ==
    last.op = "is_isomorphic" =>
        LET a == last.arg[1].where_clause
            b == last.arg[2].where_clause
        IN  /\ \A a2 \in PermuteOneBGP(a) :
                  IsIsomorphic(TQuery(a2), TQuery(b)) = last.ret
            /\ \A b2 \in PermuteOneBGP(b) :
                  IsIsomorphic(TQuery(a), TQuery(b2)) = last.ret

\* a tree with every variable renamed by r
RECURSIVE Rename(_, _)
Rename(t, r) ==
    CASE t.kind = "BGP" ->
           [t EXCEPT !.triples =
              [i \in 1..Len(t.triples) |-> RenameTriple(t.triples[i], r)]]
      [] t.kind = "UnionOperator" ->
           TUnion(Rename(t.left, r), Rename(t.right, r))
      [] t.kind = "OptionalOperator" -> TOptional(Rename(t.bgp, r))
      [] t.kind = "GroupGraphPattern" ->
           [t EXCEPT !.pattern = Rename(t.pattern, r)]
      [] t.kind = "list" ->
           TList([i \in 1..Len(t.items) |-> Rename(t.items[i], r)])
      [] OTHER -> t

\* the trees obtained from t by swapping the branches of one Union (the
\* outermost one, or one nested in a Union or an Optional)
RECURSIVE SwapOneUnion(_)
SwapOneUnion(t) ==
    CASE t.kind = "UnionOperator" ->
           {TUnion(t.right, t.left)}
           \cup {TUnion(x, t.right) : x \in SwapOneUnion(t.left)}
           \cup {TUnion(t.left, x) : x \in SwapOneUnion(t.right)}
      [] t.kind = "OptionalOperator" ->
           {TOptional(x) : x \in SwapOneUnion(t.bgp)}
      [] OTHER -> {}

\* C7: a Query is isomorphic to the Query obtained by swapping the branches
\* of a Union (top-level, or nested in a Union or an Optional) and renaming
\* the variables injectively.
C7_UnionCommutative ==
    last.op = "is_isomorphic" =>
        LET a == last.arg[1].where_clause
            b == last.arg[2].where_clause
        IN  (\E r \in InjectiveRenamings(CmpVarNames, CmpVarNames) :
                b \in {Rename(x, r) : x \in SwapOneUnion(a)})
            => last.ret

(***************************************************************************)
(* Query text.  The text is kept as its sequence of lexemes: white space   *)
(* separates lexemes and carries nothing else.  A lexeme is a sequence of  *)
(* characters, like every term.                                            *)
(***************************************************************************)
Kw(word) == <<word>>

Digit(d) ==
    CASE d = 0 -> "0" [] d = 1 -> "1" [] d = 2 -> "2" [] d = 3 -> "3"
      [] d = 4 -> "4" [] d = 5 -> "5" [] d = 6 -> "6" [] d = 7 -> "7"
      [] d = 8 -> "8" [] d = 9 -> "9"

Digits == {Digit(d) : d \in 0..9}

\* f"{n}" for a non-negative int
RECURSIVE DecimalString(_)
DecimalString(n) ==
    IF n < 10 THEN <<Digit(n)>>
    ELSE DecimalString(n \div 10) \o <<Digit(n % 10)>>

\* the lexemes of an expression string: its words
RECURSIVE Words(_, _)
Words(str, cur) ==
    IF str = <<>> THEN (IF cur = <<>> THEN <<>> ELSE <<cur>>)
    ELSE IF Head(str) = " "
    THEN (IF cur = <<>> THEN <<>> ELSE <<cur>>) \o Words(Tail(str), <<>>)
    ELSE Words(Tail(str), Append(cur, Head(str)))

\* ' '.join(words)
RECURSIVE JoinSpace(_)
JoinSpace(words) ==
    IF words = <<>> THEN <<>>
    ELSE IF Len(words) = 1 THEN words[1]
    ELSE words[1] \o <<" ">> \o JoinSpace(Tail(words))

RECURSIVE Concat(_)
Concat(texts) == IF texts = <<>> THEN <<>> ELSE Head(texts) \o Concat(Tail(texts))

(***************************************************************************)
(* The value of a Query as to_query_string reads it.  An optional field    *)
(* is <<>> for None and <<v>> for the value v; aggregations is the list of  *)
(* AggregationExpressions, empty for None.  HAVING conditions are left     *)
(* out: the Queries serialized and the texts parsed here have none.        *)
(***************************************************************************)
None == <<>>
Some(v) == <<v>>

OrderBy(variables, ascending) == [variables |-> variables, ascending |-> ascending]

\* AggregationExpression(function, variable, alias, distinct)
AggregationExpression(function, variable, alias, distinct) ==
    [function |-> function, variable |-> variable, alias |-> alias,
     distinct |-> distinct]

QueryValue(proj, w, fs, gb, ob, lim, off, g, d, aggs) ==
    [kind |-> "SPARQLQuery", projection_variables |-> proj, where_clause |-> w,
     filters |-> fs, group_by |-> gb, order_by |-> ob, limit |-> lim,
     offset |-> off, graph |-> g, is_distinct |-> d, aggregations |-> aggs]

\* a serialization: the text, or the exception raised
Text(t) == [ok |-> TRUE, text |-> t]
Raised(e) == [ok |-> FALSE, error |-> e]

\* "FILTER(expression)"
FilterText(e) == <<Kw("FILTER"), Kw("(")>> \o Words(e, <<>>) \o <<Kw(")")>>

\* SPARQLQuery._serialize_bgp
SerializeBGP(bgp) ==
    Text(Concat([i \in 1..Len(bgp.triples) |->
                   <<bgp.triples[i][1], bgp.triples[i][2], bgp.triples[i][3],
                     Kw(".")>>])
         \o Concat([i \in 1..Len(bgp.filters) |-> FilterText(bgp.filters[i])]))

RECURSIVE SerializeWhereClause(_), ToQueryString(_)

\* ''.join(self._serialize_where_clause(sq, indent) for sq in clause)
RECURSIVE SerializeList(_)
SerializeList(items) ==
    IF items = <<>> THEN Text(<<>>)
    ELSE LET h == SerializeWhereClause(Head(items))
         IN  IF ~h.ok THEN h
             ELSE LET t == SerializeList(Tail(items))
                  IN  IF ~t.ok THEN t ELSE Text(h.text \o t.text)

\* SPARQLQuery._serialize_union
SerializeUnion(union) ==
    LET l == SerializeWhereClause(union.left)
        r == SerializeWhereClause(union.right)
    IN  IF ~l.ok THEN l
        ELSE IF ~r.ok THEN r
        ELSE Text(<<Kw("{")>> \o l.text \o <<Kw("}"), Kw("UNION"), Kw("{")>>
                  \o r.text \o <<Kw("}")>>)

\* SPARQLQuery._serialize_optional
SerializeOptional(optional) ==
    LET b == SerializeWhereClause(optional.bgp)
    IN  IF ~b.ok THEN b
        ELSE Text(<<Kw("OPTIONAL"), Kw("{")>> \o b.text \o <<Kw("}")>>)

\* SPARQLQuery._serialize_subquery
SerializeSubquery(subquery) ==
    LET q == ToQueryString(subquery.query)
    IN  IF ~q.ok THEN q ELSE Text(<<Kw("{")>> \o q.text \o <<Kw("}")>>)

\* SPARQLQuery._serialize_group
SerializeGroup(group) ==
    LET p == SerializeWhereClause(group.pattern)
    IN  IF ~p.ok THEN p
        ELSE Text(<<Kw("{")>> \o p.text
                  \o Concat([i \in 1..Len(group.filters) |->
                               FilterText(group.filters[i])])
                  \o <<Kw("}")>>)

\* SPARQLQuery._serialize_where_clause
SerializeWhereClause(clause) ==
    CASE clause.kind = "BGP" -> SerializeBGP(clause)
      [] clause.kind = "UnionOperator" -> SerializeUnion(clause)
      [] clause.kind = "OptionalOperator" -> SerializeOptional(clause)
      [] clause.kind = "SubQuery" -> SerializeSubquery(clause)
      [] clause.kind = "GroupGraphPattern" -> SerializeGroup(clause)
      [] clause.kind = "list" -> SerializeList(clause.items)
      [] OTHER -> Raised("ValueError")

\* the ORDER BY terms of to_query_string; ascending is [bool |-> b] for a
\* single flag and [list |-> flags] for one flag per variable
OrderByText(ob) ==
    LET dir(i) ==
            IF "bool" \in DOMAIN ob.ascending
            THEN (IF ob.ascending.bool THEN "ASC" ELSE "DESC")
            ELSE IF i <= Len(ob.ascending.list)
            THEN (IF ob.ascending.list[i] THEN "ASC" ELSE "DESC")
            ELSE "ASC"
    IN  Concat([i \in 1..Len(ob.variables) |->
                  <<Kw(dir(i)), Kw("("), ob.variables[i], Kw(")")>>])

\* SPARQLQuery.to_query_string
AggregationText(agg) ==
    <<Kw("("), agg.function, Kw("(")>>
    \o (IF agg.distinct THEN <<Kw("DISTINCT")>> ELSE <<>>)
    \o <<agg.variable, Kw(")"), Kw("AS"), agg.alias, Kw(")")>>

ToQueryString(q) ==
    LET w == SerializeWhereClause(q.where_clause)
    IN  IF ~w.ok THEN w
        ELSE Text(
            <<Kw("SELECT")>>
            \o (IF q.is_distinct THEN <<Kw("DISTINCT")>> ELSE <<>>)
            \o (IF q.aggregations # <<>>
                THEN (IF q.projection_variables # DefaultProjection
                      THEN q.projection_variables ELSE <<>>)
                     \o Concat([i \in 1..Len(q.aggregations) |->
                                   AggregationText(q.aggregations[i])])
                ELSE q.projection_variables)
            \o (IF q.graph # None
                THEN <<Kw("FROM"), <<"<">> \o q.graph[1] \o <<">">> >> ELSE <<>>)
            \o <<Kw("WHERE"), Kw("{")>>
            \o w.text
            \o Concat([i \in 1..Len(q.filters) |-> FilterText(q.filters[i])])
            \o <<Kw("}")>>
            \o (IF q.group_by # None /\ q.group_by[1] # <<>>
                THEN <<Kw("GROUP"), Kw("BY")>> \o q.group_by[1] ELSE <<>>)
            \o (IF q.order_by # None
                THEN <<Kw("ORDER"), Kw("BY")>> \o OrderByText(q.order_by[1])
                ELSE <<>>)
            \o (IF q.limit # None
                THEN <<Kw("LIMIT"), DecimalString(q.limit[1])>> ELSE <<>>)
            \o (IF q.offset # None
                THEN <<Kw("OFFSET"), DecimalString(q.offset[1])>> ELSE <<>>))

(***************************************************************************)
(* The grammar of SPARQLParser._define_grammar, as a recursive-descent     *)
(* parser over the lexemes with pyparsing's rules: And fails as a whole,   *)
(* MatchFirst takes the first alternative that parses, Optional,           *)
(* ZeroOrMore and OneOrMore are greedy.  String and boolean literals,      *)
(* prefixes before the colon, arithmetic and parenthesized expressions,    *)
(* aggregations and HAVING are left out: no text parsed here has them.     *)
(*                                                                         *)
(* The results of a scope are the list of its named results in the order   *)
(* they were matched: [name, val].                                         *)
(***************************************************************************)
Parsed(rest, res) == [ok |-> TRUE, rest |-> rest, res |-> res]
NoParse == [ok |-> FALSE]

Named(name, val) == [name |-> name, val |-> val]

\* variable = Combine('?' + Word(alphas, alphanums + '_'))
IsVariable(tok) == Len(tok) >= 2 /\ tok[1] = "?"

\* iri = full_iri | prefixed_name
IsIriLexeme(tok) ==
    \/ Len(tok) >= 3 /\ tok[1] = "<" /\ tok[Len(tok)] = ">"
    \/ Len(tok) >= 2 /\ tok[1] = ":"

\* ppc.number
IsNumber(tok) == tok # <<>> /\ \A i \in 1..Len(tok) : tok[i] \in Digits

IsTermSP(tok) == IsVariable(tok) \/ IsIriLexeme(tok)
IsTermO(tok) == IsVariable(tok) \/ IsIriLexeme(tok) \/ IsNumber(tok)

ComparisonOps == {Kw("="), Kw("!="), Kw("<"), Kw(">"), Kw("<="), Kw(">=")}

StartsWith(toks, prefix) ==
    Len(toks) >= Len(prefix) /\ SubSeq(toks, 1, Len(prefix)) = prefix

Drop(toks, k) == SubSeq(toks, k + 1, Len(toks))

\* triple_pattern = Group(term_s_p + term_s_p + term_o + Suppress('.'))
ParseTriplePattern(toks) ==
    IF /\ Len(toks) >= 4
       /\ IsTermSP(toks[1]) /\ IsTermSP(toks[2]) /\ IsTermO(toks[3])
       /\ toks[4] = Kw(".")
    THEN Parsed(Drop(toks, 4), <<toks[1], toks[2], toks[3]>>)
    ELSE NoParse

\* OneOrMore(triple_pattern), continued after the triples in acc
RECURSIVE ParseTriples(_, _)
ParseTriples(toks, acc) ==
    LET More(t) == IF t.ok THEN ParseTriples(t.rest, Append(acc, t.res))
                   ELSE Parsed(toks, acc)
    IN  More(ParseTriplePattern(toks))

\* bgp = Group(OneOrMore(triple_pattern)).setResultsName('bgp')
ParseBGP(toks) ==
    LET Group(ts) == IF ts.res = <<>> THEN NoParse
                     ELSE Parsed(ts.rest, <<Named("bgp", ts.res)>>)
    IN  Group(ParseTriples(toks, <<>>))

\* expression = comparison_expr | arithmetic_expr, on plain terms
ParseExpression(toks) ==
    IF /\ Len(toks) >= 3
       /\ IsTermO(toks[1]) /\ toks[2] \in ComparisonOps /\ IsTermO(toks[3])
    THEN Parsed(Drop(toks, 3), <<[comparison |-> SubSeq(toks, 1, 3)]>>)
    ELSE IF Len(toks) >= 1 /\ IsTermO(toks[1])
    THEN Parsed(Drop(toks, 1), <<[term |-> toks[1]]>>)
    ELSE NoParse

\* filter_pattern = Group('FILTER' + '(' + expression + ')')
ParseFilter(toks) ==
    IF ~StartsWith(toks, <<Kw("FILTER"), Kw("(")>>) THEN NoParse
    ELSE LET Close(e) ==
                 IF e.ok /\ StartsWith(e.rest, <<Kw(")")>>)
                 THEN Parsed(Drop(e.rest, 1), <<Named("filter", e.res)>>)
                 ELSE NoParse
         IN  Close(ParseExpression(Drop(toks, 2)))

RECURSIVE ParseGroupGraphPattern(_)

\* Group('{' + group_graph_pattern + '}') under the results name given
ParseBraced(toks, name) ==
    IF ~StartsWith(toks, <<Kw("{")>>) THEN NoParse
    ELSE LET Close(g) ==
                 IF StartsWith(g.rest, <<Kw("}")>>)
                 THEN Parsed(Drop(g.rest, 1), <<Named(name, g.res)>>)
                 ELSE NoParse
         IN  Close(ParseGroupGraphPattern(Drop(toks, 1)))

\* optional_pattern = Group('OPTIONAL' + braced_pattern)
ParseOptional(toks) ==
    IF ~StartsWith(toks, <<Kw("OPTIONAL")>>) THEN NoParse
    ELSE LET Group(b) ==
                 IF b.ok THEN Parsed(b.rest, <<Named("optional", b.res)>>)
                 ELSE NoParse
         IN  Group(ParseBraced(Drop(toks, 1), "braced"))

\* union_pattern = Group(braced('left') + 'UNION' + braced('right'))
ParseUnion(toks) ==
    LET Group(l, r) ==
            IF r.ok THEN Parsed(r.rest, <<Named("union", l.res \o r.res)>>)
            ELSE NoParse
        Right(l) ==
            IF ~l.ok \/ ~StartsWith(l.rest, <<Kw("UNION")>>) THEN NoParse
            ELSE Group(l, ParseBraced(Drop(l.rest, 1), "right"))
    IN  Right(ParseBraced(toks, "left"))

\* graph_pattern_not_triples = union | optional | braced | filter
ParseGraphPatternNotTriples(toks) ==
    LET MatchFirst(first, others) == IF first.ok THEN first ELSE others
    IN  MatchFirst(ParseUnion(toks),
          MatchFirst(ParseOptional(toks),
            MatchFirst(ParseBraced(toks, "braced"), ParseFilter(toks))))

\* Optional(bgp)
ParseOptionalBGP(toks) ==
    LET Opt(b) == IF b.ok THEN b ELSE Parsed(toks, <<>>)
    IN  Opt(ParseBGP(toks))

\* ZeroOrMore(graph_pattern_not_triples + Optional(bgp))
RECURSIVE ParseMorePatterns(_, _)
ParseMorePatterns(toks, acc) ==
    LET Again(g, b) == ParseMorePatterns(b.rest, acc \o g.res \o b.res)
        More(g) == IF ~g.ok THEN Parsed(toks, acc)
                   ELSE Again(g, ParseOptionalBGP(g.rest))
    IN  More(ParseGraphPatternNotTriples(toks))

\* group_graph_pattern = Optional(bgp) + ZeroOrMore(... + Optional(bgp))
ParseGroupGraphPattern(toks) ==
    LET More(b) == ParseMorePatterns(b.rest, b.res)
    IN  More(ParseOptionalBGP(toks))

\* OneOrMore(variable), continued after the variables in acc
RECURSIVE ParseVariables(_, _)
ParseVariables(toks, acc) ==
    IF toks # <<>> /\ IsVariable(toks[1])
    THEN ParseVariables(Tail(toks), Append(acc, toks[1]))
    ELSE Parsed(toks, acc)

\* agg_function = oneOf('COUNT SUM MIN MAX AVG')
AggFunctions == {Kw("COUNT"), Kw("SUM"), Kw("MIN"), Kw("MAX"), Kw("AVG")}

\* agg_expression = Group('(' + agg_function('function') + '('
\*     + Optional('DISTINCT')('distinct') + ('*'('var_star') | variable)
\*     + ')' + 'AS' + variable('alias') + ')')
ParseAggExpression(toks) ==
    IF ~(Len(toks) >= 3 /\ toks[1] = Kw("(") /\ toks[2] \in AggFunctions
         /\ toks[3] = Kw("("))
    THEN NoParse
    ELSE LET d == StartsWith(Drop(toks, 3), <<Kw("DISTINCT")>>)
             t == IF d THEN Drop(toks, 4) ELSE Drop(toks, 3)
         IN  IF /\ Len(t) >= 5
                /\ (t[1] = Kw("*") \/ IsVariable(t[1]))
                /\ t[2] = Kw(")") /\ t[3] = Kw("AS")
                /\ IsVariable(t[4]) /\ t[5] = Kw(")")
             THEN Parsed(Drop(t, 5),
                    <<Named("function", toks[2])>>
                    \o (IF d THEN <<Named("distinct", Kw("DISTINCT"))>>
                        ELSE <<>>)
                    \o <<Named(IF t[1] = Kw("*") THEN "var_star"
                               ELSE "variable", t[1]),
                         Named("alias", t[4])>>)
             ELSE NoParse

\* projection = OneOrMore(agg_expression | variable), continued after the
\* items in acc: a variable is a token, an aggregation a group of its own
RECURSIVE ParseProjection(_, _)
ParseProjection(toks, acc) ==
    LET More(agg) ==
            IF agg.ok
            THEN ParseProjection(agg.rest, Append(acc, [group |-> agg.res]))
            ELSE IF toks # <<>> /\ IsVariable(toks[1])
            THEN ParseProjection(Tail(toks), Append(acc, [tok |-> toks[1]]))
            ELSE Parsed(toks, acc)
    IN  More(ParseAggExpression(toks))

\* select_clause = 'SELECT' + Optional('DISTINCT') + (select_all | projection)
ParseSelect(toks) ==
    IF ~StartsWith(toks, <<Kw("SELECT")>>) THEN NoParse
    ELSE LET d == StartsWith(Drop(toks, 1), <<Kw("DISTINCT")>>)
             t == IF d THEN Drop(toks, 2) ELSE Drop(toks, 1)
             dres == IF d THEN <<Named("distinct", <<Kw("DISTINCT")>>)>> ELSE <<>>
             Projection(items) ==
                 IF items.res # <<>>
                 THEN Parsed(items.rest,
                             dres \o <<Named("projection", items.res),
                                       Named("select", <<>>)>>)
                 ELSE NoParse
         IN  IF StartsWith(t, <<Kw("*")>>)
             THEN Parsed(Drop(t, 1),
                         dres \o <<Named("select_all", Kw("*")),
                                   Named("select", <<>>)>>)
             ELSE Projection(ParseProjection(t, <<>>))

\* where_clause = 'WHERE' + '{' + group_graph_pattern + '}'
ParseWhere(toks) ==
    IF ~StartsWith(toks, <<Kw("WHERE"), Kw("{")>>) THEN NoParse
    ELSE LET Close(g) ==
                 IF StartsWith(g.rest, <<Kw("}")>>)
                 THEN Parsed(Drop(g.rest, 1), g.res \o <<Named("where", <<>>)>>)
                 ELSE NoParse
         IN  Close(ParseGroupGraphPattern(Drop(toks, 2)))

\* Optional(group_by_clause)
ParseGroupBy(toks) ==
    LET Opt(vs) ==
            IF StartsWith(toks, <<Kw("GROUP"), Kw("BY")>>) /\ vs.res # <<>>
            THEN Parsed(vs.rest, <<Named("group_by", vs.res)>>)
            ELSE Parsed(toks, <<>>)
    IN  Opt(ParseVariables(Drop(toks, 2), <<>>))

\* OneOrMore(order_by_term): direction_term | plain_var_term
RECURSIVE ParseOrderByTerms(_, _)
ParseOrderByTerms(toks, acc) ==
    IF /\ Len(toks) >= 4
       /\ toks[1] \in {Kw("ASC"), Kw("DESC")}
       /\ toks[2] = Kw("(") /\ IsVariable(toks[3]) /\ toks[4] = Kw(")")
    THEN ParseOrderByTerms(Drop(toks, 4),
                           acc \o <<[tok |-> toks[1]], [group |-> <<toks[3]>>]>>)
    ELSE IF toks # <<>> /\ IsVariable(toks[1])
    THEN ParseOrderByTerms(Tail(toks), Append(acc, [tok |-> toks[1]]))
    ELSE Parsed(toks, acc)

\* Optional(order_by_clause)
ParseOrderBy(toks) ==
    LET Opt(ts) ==
            IF StartsWith(toks, <<Kw("ORDER"), Kw("BY")>>) /\ ts.res # <<>>
            THEN Parsed(ts.rest, <<Named("order_by", ts.res)>>)
            ELSE Parsed(toks, <<>>)
    IN  Opt(ParseOrderByTerms(Drop(toks, 2), <<>>))

\* self.query.parseString(query_string, parseAll=True), with
\* query = select_clause + where_clause + Optional(group_by_clause)
\*         + Optional(having_pattern) + Optional(order_by_clause)
ParseString(text) ==
    LET And(first, second) ==
            IF second.ok THEN Parsed(second.rest, first.res \o second.res)
            ELSE NoParse
        ParseAll(q) == IF q.ok /\ q.rest = <<>> THEN q ELSE NoParse
        AfterGroupBy(q) == And(q, ParseOrderBy(q.rest))
        AfterWhere(q) ==
            IF q.ok THEN AfterGroupBy(And(q, ParseGroupBy(q.rest)))
            ELSE NoParse
        AfterSelect(q) ==
            IF q.ok THEN AfterWhere(And(q, ParseWhere(q.rest))) ELSE NoParse
    IN  ParseAll(AfterSelect(ParseSelect(text)))

(***************************************************************************)
(* ParseResults access, and the Python values of the structured dict:      *)
(* a dict is the list of its items in insertion order                      *)
(***************************************************************************)
\* list(result.keys()): each name once, in the order first matched
RECURSIVE Keys(_)
Keys(res) ==
    IF res = <<>> THEN <<>>
    ELSE LET front == Keys(SubSeq(res, 1, Len(res) - 1))
             name == res[Len(res)].name
         IN  IF name \in SeqRange(front) THEN front ELSE Append(front, name)

\* 'name' in result
HasName(res, name) == \E i \in 1..Len(res) : res[i].name = name

\* result.name: the last match under that name
Result(res, name) ==
    res[CHOOSE i \in 1..Len(res) :
          /\ res[i].name = name
          /\ \A j \in (i + 1)..Len(res) : res[j].name # name].val

PyNone == [py |-> "None"]
PyVal(v) == [py |-> "val", v |-> v]
PyList(items) == [py |-> "list", items |-> items]
PyDict(items) == [py |-> "dict", items |-> items]
Item(k, v) == [k |-> k, v |-> v]

IsDict(x) == x.py = "dict"
DictHas(d, k) == \E i \in 1..Len(d.items) : d.items[i].k = k
DictGet(d, k) == d.items[CHOOSE i \in 1..Len(d.items) : d.items[i].k = k].v

\* d[k] = v
DictSet(d, k, v) ==
    IF DictHas(d, k)
    THEN PyDict([i \in 1..Len(d.items) |->
                   IF d.items[i].k = k THEN Item(k, v) ELSE d.items[i]])
    ELSE PyDict(Append(d.items, Item(k, v)))

\* SPARQLParser._format_filter_expression on the expressions parsed here
FormatFilterExpression(expr) ==
    IF "comparison" \in DOMAIN expr THEN JoinSpace(expr.comparison)
    ELSE expr.term

\* the ORDER BY loop of convert_to_structured_dict, from position i
RECURSIVE OrderByTerms(_, _, _, _)
OrderByTerms(terms, i, vs, flags) ==
    IF i > Len(terms) THEN [variables |-> vs, ascending |-> flags]
    ELSE IF "tok" \in DOMAIN terms[i] /\ IsVariable(terms[i].tok)
    THEN OrderByTerms(terms, i + 1, Append(vs, terms[i].tok), Append(flags, TRUE))
    ELSE IF /\ "tok" \in DOMAIN terms[i]
            /\ terms[i].tok \in {Kw("ASC"), Kw("DESC")}
            /\ i + 1 <= Len(terms)
    THEN LET var_list == terms[i + 1].group
         IN  IF Len(var_list) > 0
             THEN OrderByTerms(terms, i + 2, Append(vs, var_list[1]),
                               Append(flags, terms[i].tok # Kw("DESC")))
             ELSE OrderByTerms(terms, i + 2, vs, flags)
    ELSE OrderByTerms(terms, i + 1, vs, flags)

\* a Python list of plain values, and back
PyListOf(seq) == PyList([i \in 1..Len(seq) |-> PyVal(seq[i])])
Unwrap(list) == [i \in 1..Len(list.items) |-> list.items[i].v]

\* the triple_patterns list built from result.bgp
TriplePatternsOf(bgp) == PyListOf(bgp)

\* the dicts of the SELECT, GROUP BY and ORDER BY parts, as items to append
\* the aggregation dicts of the projection items that are aggregations
AggregationDicts(items) ==
    LET aggs == SelectSeq(items, LAMBDA item : "group" \in DOMAIN item)
        AggDict(item) ==
            PyDict(<<Item("function", PyVal(Result(item, "function"))),
                     Item("alias", PyVal(Result(item, "alias"))),
                     Item("variable",
                          PyVal(IF HasName(item, "var_star") THEN Kw("*")
                                ELSE Result(item, "variable")))>>
                   \o (IF HasName(item, "distinct")
                       THEN <<Item("distinct", PyVal(TRUE))>> ELSE <<>>))
    IN  [i \in 1..Len(aggs) |-> AggDict(aggs[i].group)]

\* the plain variables of the projection items
ProjectionVariables(items) ==
    LET toks == SelectSeq(items, LAMBDA item : "tok" \in DOMAIN item)
    IN  [i \in 1..Len(toks) |-> toks[i].tok]

SelectDict(res) ==
    IF ~HasName(res, "select") THEN PyDict(<<>>)
    ELSE LET aggregations ==
                 IF ~HasName(res, "select_all") /\ HasName(res, "projection")
                 THEN AggregationDicts(Result(res, "projection")) ELSE <<>>
             sel == IF HasName(res, "select_all")
                     THEN <<Item("variables", PyVal(Kw("*")))>>
                     ELSE IF HasName(res, "projection")
                     THEN <<Item("variables",
                                 PyListOf(ProjectionVariables(
                                     Result(res, "projection"))))>>
                     ELSE <<>>
             dist == IF HasName(res, "distinct")
                     THEN <<Item("distinct", PyVal(TRUE))>> ELSE <<>>
             aggs == IF aggregations # <<>>
                     THEN <<Item("aggregations", PyList(aggregations))>>
                     ELSE <<>>
         IN  PyDict(sel \o dist \o aggs)

ClauseDicts(res) ==
    (IF HasName(res, "group_by")
     THEN <<Item("group_by",
                 PyDict(<<Item("variables", PyListOf(Result(res, "group_by")))>>))>>
     ELSE <<>>)
    \o (IF HasName(res, "order_by")
        THEN LET ob == OrderByTerms(Result(res, "order_by"), 1, <<>>, <<>>)
             IN  <<Item("order_by",
                        PyDict(<<Item("variables", PyListOf(ob.variables)),
                                 Item("ascending", PyListOf(ob.ascending))>>))>>
        ELSE <<>>)

RECURSIVE ConvertToStructuredDict(_)

\* the loop over named_keys that builds the ordered patterns list
RECURSIVE PatternsOf(_, _)
PatternsOf(res, keys) ==
    IF keys = <<>> THEN <<>>
    ELSE LET key == Head(keys)
             this ==
               CASE key = "bgp" ->
                      <<PyDict(<<Item("bgp",
                          PyDict(<<Item("triple_patterns",
                                        TriplePatternsOf(Result(res, "bgp")))>>))>>)>>
                 [] key = "braced" ->
                      <<PyDict(<<Item("group",
                          ConvertToStructuredDict(Result(res, "braced")))>>)>>
                 [] key = "optional" ->
                      <<PyDict(<<Item("optional",
                          PyDict(<<Item("pattern",
                              ConvertToStructuredDict(
                                  Result(Result(res, "optional"), "braced")))>>))>>)>>
                 [] key = "union" ->
                      <<PyDict(<<Item("union",
                          PyDict(<<Item("left",
                                        ConvertToStructuredDict(
                                            Result(Result(res, "union"), "left"))),
                                   Item("right",
                                        ConvertToStructuredDict(
                                            Result(Result(res, "union"), "right")))
                                 >>))>>)>>
                 [] key = "filter" ->
                      <<PyDict(<<Item("filter",
                          PyDict(<<Item("expression",
                              PyVal(FormatFilterExpression(
                                        Result(res, "filter")[1])))>>))>>)>>
                 [] OTHER -> <<>>
         IN  this \o PatternsOf(res, Tail(keys))

\* the single component case: the items of result_dict
SingleComponent(res) ==
    (IF HasName(res, "bgp")
     THEN <<Item("bgp", PyDict(<<Item("triple_patterns",
                                      TriplePatternsOf(Result(res, "bgp")))>>))>>
     ELSE <<>>)
    \o (IF HasName(res, "union")
        THEN <<Item("union",
                 PyDict(<<Item("left", ConvertToStructuredDict(
                                           Result(Result(res, "union"), "left"))),
                          Item("right", ConvertToStructuredDict(
                                            Result(Result(res, "union"), "right")))
                        >>))>>
        ELSE <<>>)
    \o (IF HasName(res, "optional")
        THEN <<Item("optional",
                 PyDict(<<Item("pattern", ConvertToStructuredDict(
                              Result(Result(res, "optional"), "braced")))>>))>>
        ELSE <<>>)
    \o (IF HasName(res, "filter")
        THEN <<Item("filter",
                 PyDict(<<Item("expression",
                     PyVal(FormatFilterExpression(Result(res, "filter")[1])))>>))>>
        ELSE <<>>)
    \o (IF HasName(res, "braced")
        THEN LET braced_result == ConvertToStructuredDict(Result(res, "braced"))
             IN  IF /\ IsDict(braced_result)
                    /\ Len(braced_result.items) = 1
                    /\ DictHas(braced_result, "group")
                 THEN <<Item("group", DictGet(braced_result, "group"))>>
                 ELSE <<Item("group", braced_result)>>
        ELSE <<>>)

\* SPARQLParser.convert_to_structured_dict on the results of a scope
ConvertToStructuredDict(res) ==
    LET named_keys == Keys(res)
        select_dict == SelectDict(res)
    IN  IF Len(named_keys) > 1
        THEN PyDict(<<Item("patterns", PyList(PatternsOf(res, named_keys))),
                      Item("select", select_dict)>> \o ClauseDicts(res))
        ELSE LET result_dict ==
                     SingleComponent(res)
                     \o (IF select_dict.items # <<>>
                         THEN <<Item("select", select_dict)>> ELSE <<>>)
                     \o ClauseDicts(res)
             IN  IF result_dict # <<>> THEN PyDict(result_dict) ELSE PyNone

(***************************************************************************)
(* From the structured dict to the Query                                   *)
(***************************************************************************)
RECURSIVE FlattenNestedStructures(_)

\* SPARQLParser.flatten_nested_structures
FlattenNestedStructures(result_dict) ==
    IF ~IsDict(result_dict) THEN result_dict
    ELSE IF /\ Len(result_dict.items) = 1
            /\ DictHas(result_dict, "group")
            /\ IsDict(DictGet(result_dict, "group"))
            /\ Len(DictGet(result_dict, "group").items) = 1
            /\ DictHas(DictGet(result_dict, "group"), "group")
    THEN FlattenNestedStructures(DictGet(result_dict, "group"))
    ELSE PyDict([i \in 1..Len(result_dict.items) |->
            LET value == result_dict.items[i].v
            IN  Item(result_dict.items[i].k,
                     IF value.py = "dict" THEN FlattenNestedStructures(value)
                     ELSE IF value.py = "list"
                     THEN PyList([j \in 1..Len(value.items) |->
                                    IF value.items[j].py = "dict"
                                    THEN FlattenNestedStructures(value.items[j])
                                    ELSE value.items[j]])
                     ELSE value)])

\* a built where clause, or the exception raised
Built(c) == [ok |-> TRUE, clause |-> c]

RECURSIVE BuildWhereClause(_, _)

\* the triples of every 'bgp' pattern, and the patterns that are not BGPs
RECURSIVE AllTriples(_)
AllTriples(patterns) ==
    IF patterns = <<>> THEN <<>>
    ELSE (IF DictHas(Head(patterns), "bgp")
          THEN LET tps == DictGet(DictGet(Head(patterns), "bgp"),
                                  "triple_patterns").items
               IN  [i \in 1..Len(tps) |-> tps[i].v]
          ELSE <<>>) \o AllTriples(Tail(patterns))

OtherPatterns(patterns) == SelectSeq(patterns, LAMBDA x : ~DictHas(x, "bgp"))

\* the body of "for pattern_type, pattern_content in pattern.items()": the
\* parts the pattern contributes, or the exception raised
BuildPattern(pattern, preserve_nesting) ==
    LET pattern_type == pattern.items[1].k
        pattern_content == pattern.items[1].v
    IN  CASE pattern_type = "union" ->
               LET l == BuildWhereClause(DictGet(pattern_content, "left"),
                                         preserve_nesting)
                   r == BuildWhereClause(DictGet(pattern_content, "right"),
                                         preserve_nesting)
               IN  IF ~l.ok THEN l
                   ELSE IF ~r.ok THEN r
                   ELSE Built(<<TUnion(l.clause, r.clause)>>)
          [] pattern_type = "optional" ->
               LET b == BuildWhereClause(DictGet(pattern_content, "pattern"),
                                         preserve_nesting)
               IN  IF ~b.ok THEN b ELSE Built(<<TOptional(b.clause)>>)
          [] pattern_type = "group" ->
               LET g == BuildWhereClause(pattern_content, preserve_nesting)
               IN  IF ~g.ok THEN g
                   ELSE IF preserve_nesting
                   THEN Built(<<TGroup(g.clause, <<>>)>>)
                   ELSE Built(<<g.clause>>)
          [] OTHER -> Built(<<>>)

RECURSIVE BuildPatterns(_, _)
BuildPatterns(patterns, preserve_nesting) ==
    IF patterns = <<>> THEN Built(<<>>)
    ELSE LET h == BuildPattern(Head(patterns), preserve_nesting)
         IN  IF ~h.ok THEN h
             ELSE LET t == BuildPatterns(Tail(patterns), preserve_nesting)
                  IN  IF ~t.ok THEN t ELSE Built(h.clause \o t.clause)

\* the branches of _build_where_clause after the 'patterns' block
BuildSingle(structured_dict, preserve_nesting) ==
    IF DictHas(structured_dict, "bgp")
    THEN LET tps == DictGet(DictGet(structured_dict, "bgp"),
                            "triple_patterns").items
         IN  Built(TBGP([i \in 1..Len(tps) |-> tps[i].v], <<>>))
    ELSE IF \E k \in {"union", "optional", "group"} : DictHas(structured_dict, k)
    THEN LET k == IF DictHas(structured_dict, "union") THEN "union"
                  ELSE IF DictHas(structured_dict, "optional") THEN "optional"
                  ELSE "group"
             b == BuildPattern(PyDict(<<Item(k, DictGet(structured_dict, k))>>),
                               preserve_nesting)
         IN  IF ~b.ok THEN b ELSE Built(b.clause[1])
    ELSE Built(TBGP(<<>>, <<>>))

\* SPARQLParser._build_where_clause
BuildWhereClause(structured_dict, preserve_nesting) ==
    IF ~IsDict(structured_dict) THEN Raised("TypeError")
    ELSE IF ~DictHas(structured_dict, "patterns")
    THEN BuildSingle(structured_dict, preserve_nesting)
    ELSE LET patterns == DictGet(structured_dict, "patterns").items
             all_triples == AllTriples(patterns)
             other_patterns == OtherPatterns(patterns)
             others == BuildPatterns(other_patterns, preserve_nesting)
         IN  IF all_triples # <<>>
             THEN IF ~others.ok THEN others
                  ELSE LET result_parts ==
                               <<TBGP(all_triples, <<>>)>> \o others.clause
                       IN  IF Len(result_parts) = 1 THEN Built(result_parts[1])
                           ELSE Built(TList(result_parts))
             ELSE IF other_patterns # <<>>
             THEN IF Len(other_patterns) = 1
                  THEN LET one == BuildPattern(other_patterns[1],
                                               preserve_nesting)
                       IN  IF ~one.ok THEN one
                           ELSE IF one.clause # <<>> THEN Built(one.clause[1])
                           ELSE Built(TList(<<>>))
                  ELSE IF ~others.ok THEN others
                  ELSE Built(TList(others.clause))
             ELSE BuildSingle(structured_dict, preserve_nesting)

\* SPARQLParser.structured_dict_to_query
StructuredDictToQuery(parsed_dict, preserve_nesting) ==
    LET structured_dict ==
            IF ~preserve_nesting THEN FlattenNestedStructures(parsed_dict)
            ELSE parsed_dict
        select == DictGet(structured_dict, "select")
        projection_variables ==
            IF DictHas(structured_dict, "select") /\ DictHas(select, "variables")
            THEN (IF DictGet(select, "variables") = PyVal(Kw("*"))
                  THEN DefaultProjection
                  ELSE Unwrap(DictGet(select, "variables")))
            ELSE DefaultProjection
        is_distinct ==
            DictHas(structured_dict, "select") /\ DictHas(select, "distinct")
        patterns ==
            IF DictHas(structured_dict, "patterns")
            THEN DictGet(structured_dict, "patterns").items ELSE <<>>
        top_filter ==
            IF DictHas(structured_dict, "filter")
            THEN <<DictGet(DictGet(structured_dict, "filter"), "expression").v>>
            ELSE <<>>
        pattern_filters ==
            LET fs == SelectSeq(patterns, LAMBDA x : DictHas(x, "filter"))
            IN  [i \in 1..Len(fs) |->
                   DictGet(DictGet(fs[i], "filter"), "expression").v]
        filters == top_filter \o pattern_filters
        has_group_by == DictHas(structured_dict, "group_by")
        group_variables ==
            Unwrap(DictGet(DictGet(structured_dict, "group_by"), "variables"))
        order_by ==
            IF DictHas(structured_dict, "order_by")
            THEN LET ob == DictGet(structured_dict, "order_by")
                 IN  Some(OrderBy(Unwrap(DictGet(ob, "variables")),
                                  [list |-> Unwrap(DictGet(ob, "ascending"))]))
            ELSE None
        aggregations ==
            IF DictHas(structured_dict, "select") /\ DictHas(select, "aggregations")
            THEN LET dicts == DictGet(select, "aggregations").items
                 IN  [i \in 1..Len(dicts) |->
                        AggregationExpression(
                            DictGet(dicts[i], "function").v,
                            DictGet(dicts[i], "variable").v,
                            DictGet(dicts[i], "alias").v,
                            DictHas(dicts[i], "distinct"))]
            ELSE <<>>
        where_clause == BuildWhereClause(structured_dict, preserve_nesting)
    IN  IF /\ has_group_by
           /\ projection_variables # DefaultProjection
           /\ aggregations = <<>>
           /\ \E i \in 1..Len(projection_variables) :
                 projection_variables[i] \notin SeqRange(group_variables)
        THEN Raised("OrderByValidationError")
        ELSE IF ~where_clause.ok THEN where_clause
        ELSE [ok |-> TRUE,
              query |-> QueryValue(projection_variables, where_clause.clause,
                                   filters,
                                   IF has_group_by THEN Some(group_variables)
                                   ELSE None,
                                   order_by, None, None, None, is_distinct,
                                   aggregations)]

\* SPARQLParser.parse_to_query
ParseToQuery(query_string, preserve_nesting) ==
    LET parse_result == ParseString(query_string)
    IN  IF ~parse_result.ok THEN Raised("ParseException")
        ELSE StructuredDictToQuery(ConvertToStructuredDict(parse_result.res),
                                   preserve_nesting)

(***************************************************************************)
(* The round-trip model: a Query is drawn from a family of Queries,        *)
(* serialized, and the text is parsed back                                 *)
(***************************************************************************)
RtTriple1 == <<Var("a"), Iri("p"), Var("b")>>
RtTriple2 == <<Var("b"), Iri("q"), Var("c")>>
RtFilter == <<"?", "b", " ", ">", " ", "5">>

RtBGPs == {TBGP(<<RtTriple1>>, <<>>), TBGP(<<RtTriple2>>, <<>>)}

\* what a sequence is made of
RtElements ==
    RtBGPs \cup {TOptional(TBGP(<<RtTriple2>>, <<>>)),
                 TGroup(TBGP(<<RtTriple2>>, <<>>), <<>>),
                 TUnion(TBGP(<<RtTriple1>>, <<>>), TBGP(<<RtTriple2>>, <<>>))}

RtWheres ==
    RtElements
    \cup {TBGP(<<RtTriple1, RtTriple2>>, <<RtFilter>>),
          TGroup(TGroup(TBGP(<<RtTriple1>>, <<>>), <<>>), <<RtFilter>>),
          TOptional(TUnion(TBGP(<<RtTriple1>>, <<>>), TBGP(<<RtTriple2>>, <<>>)))}
    \cup {TList(items) :
            items \in UNION {[1..k -> RtElements] : k \in 2..MaxSeqLen}}

RtQueries ==
    {QueryValue(proj, w, fs, gb, ob, lim, off, g, d, <<>>) :
        proj \in {DefaultProjection, <<Var("a")>>},
        w \in RtWheres,
        fs \in {<<>>, <<RtFilter>>},
        gb \in {None, Some(<<Var("a")>>)},
        ob \in {None, Some(OrderBy(<<Var("a")>>, [bool |-> FALSE]))},
        lim \in {None, Some(10)},
        off \in {None, Some(5)},
        g \in {None},
        d \in BOOLEAN}

InitRoundTrip ==
    /\ heap = EmptyHeap(MaxNodes)
    /\ \E q \in RtQueries : last = Called("input", q, "None")

ToQueryStringCall ==
    /\ last.op = "input"
    /\ last' = Called("to_query_string", last.arg, ToQueryString(last.arg))
    /\ UNCHANGED heap

ParseToQueryCall(preserve_nesting) ==
    /\ last.op = "to_query_string"
    /\ last.ret.ok
    /\ last' = Called("parse_to_query", <<last.arg, preserve_nesting>>,
                      ParseToQuery(last.ret.text, preserve_nesting))
    /\ UNCHANGED heap

NextRoundTrip ==
    \/ ToQueryStringCall
    \/ \E preserve_nesting \in BOOLEAN : ParseToQueryCall(preserve_nesting)

SpecRoundTrip == InitRoundTrip /\ [][NextRoundTrip]_vars

\* C8: parsing the text of a Query with the default parser succeeds and
\* yields a Query isomorphic to the one serialized.
C8_RoundTrip ==
    (last.op = "parse_to_query" /\ last.arg[2]) =>
        /\ last.ret.ok
        /\ IsIsomorphic(last.arg[1], last.ret.query)

(***************************************************************************)
(* The parsing model: a query text is drawn from a family of texts and     *)
(* parsed to a Query.  A text is described by its SELECT items, the        *)
(* content of its WHERE braces and its GROUP BY variables.                 *)
(***************************************************************************)
MaxSelectItems == 3  \* the longest projection list of a text

VariableItem(v) == [kind |-> "variable", name |-> v]
AggregationItem(agg) == [kind |-> "aggregation", agg |-> agg]

PtSelectItems ==
    {VariableItem(Var("age")), VariableItem(Var("name")),
     AggregationItem(AggregationExpression(Kw("COUNT"), Var("person"),
                                           Var("count"), FALSE))}

PtProjections == UNION {InjSeqs(PtSelectItems, k) : k \in 1..MaxSelectItems}

PtGroupBys == {<<>>, <<Var("age")>>, <<Var("age"), Var("name")>>}

PtTriple1 == <<Var("person"), Iri("age"), Var("age")>>
PtTriple2 == <<Var("person"), Iri("name"), Var("name")>>

TripleText(t) == <<t[1], t[2], t[3], Kw(".")>>

TextInput(select_all, distinct, projection, shape, body, group_by) ==
    [select_all |-> select_all, distinct |-> distinct,
     projection |-> projection, shape |-> shape, body |-> body,
     group_by |-> group_by]

\* the text of an input, lexeme by lexeme
ItemText(item) ==
    IF item.kind = "variable" THEN <<item.name>> ELSE AggregationText(item.agg)

QueryText(input) ==
    <<Kw("SELECT")>>
    \o (IF input.distinct THEN <<Kw("DISTINCT")>> ELSE <<>>)
    \o (IF input.select_all THEN <<Kw("*")>>
        ELSE Concat([i \in 1..Len(input.projection) |->
                       ItemText(input.projection[i])]))
    \o <<Kw("WHERE"), Kw("{")>> \o input.body \o <<Kw("}")>>
    \o (IF input.group_by # <<>>
        THEN <<Kw("GROUP"), Kw("BY")>> \o input.group_by ELSE <<>>)

\* texts with a SELECT clause and a GROUP BY clause over one BGP
\* the items of a WHERE body that is the two triples
PtTwoTriples ==
    <<[kind |-> "bgp", triple |-> PtTriple1], [kind |-> "bgp", triple |-> PtTriple2]>>

PtGroupByInputs ==
    {TextInput(FALSE, d, proj, PtTwoTriples,
               TripleText(PtTriple1) \o TripleText(PtTriple2), gb) :
        d \in BOOLEAN, proj \in PtProjections, gb \in PtGroupBys}
    \cup {TextInput(TRUE, d, <<>>, PtTwoTriples,
                    TripleText(PtTriple1) \o TripleText(PtTriple2), gb) :
             d \in BOOLEAN, gb \in PtGroupBys}

(***************************************************************************)
(* Texts whose WHERE braces hold triples, FILTERs, braced groups,          *)
(* OPTIONALs and UNIONs.  A body is a sequence of items; the items of a    *)
(* braced group, of an OPTIONAL and of a UNION branch are bodies again.    *)
(***************************************************************************)
MaxBodyItems == 3    \* items written directly inside the WHERE braces
MaxBraces == 3       \* extra brace levels wrapped around a body

BgpItem(t) == [kind |-> "bgp", triple |-> t]
FilterItem(e) == [kind |-> "filter", expression |-> e]
BracedItem(b) == [kind |-> "braced", body |-> b]
OptionalItem(b) == [kind |-> "optional", body |-> b]
UnionItem(l, r) == [kind |-> "union", left |-> l, right |-> r]

\* the text of a body, lexeme by lexeme
RECURSIVE BodyText(_)
BodyText(items) ==
    Concat([i \in 1..Len(items) |->
        CASE items[i].kind = "bgp" -> TripleText(items[i].triple)
          [] items[i].kind = "filter" -> FilterText(items[i].expression)
          [] items[i].kind = "braced" ->
               <<Kw("{")>> \o BodyText(items[i].body) \o <<Kw("}")>>
          [] items[i].kind = "optional" ->
               <<Kw("OPTIONAL"), Kw("{")>> \o BodyText(items[i].body)
               \o <<Kw("}")>>
          [] items[i].kind = "union" ->
               <<Kw("{")>> \o BodyText(items[i].left)
               \o <<Kw("}"), Kw("UNION"), Kw("{")>>
               \o BodyText(items[i].right) \o <<Kw("}")>>])

PtFilter == <<"?", "age", " ", ">", " ", "5">>

\* what the braces of a nested group, OPTIONAL or UNION branch hold
PtInnerBodies ==
    { <<BgpItem(PtTriple1)>>, <<BgpItem(PtTriple1), FilterItem(PtFilter)>> }

PtItems ==
    {BgpItem(PtTriple2), FilterItem(PtFilter)}
    \cup {BracedItem(b) : b \in PtInnerBodies}
    \cup {OptionalItem(b) : b \in PtInnerBodies}
    \cup {UnionItem(l, r) : l \in PtInnerBodies, r \in PtInnerBodies}

\* body wrapped in k brace levels
RECURSIVE Nest(_, _)
Nest(body, k) == IF k = 0 THEN body ELSE Nest(<<BracedItem(body)>>, k - 1)

PtShortBodies == UNION {[1..k -> PtItems] : k \in 1..2}

PtBodies ==
    UNION {[1..k -> PtItems] : k \in 1..MaxBodyItems}
    \cup {Nest(b, k) : b \in PtShortBodies, k \in 1..MaxBraces}
    \cup {<<OptionalItem(b)>> : b \in PtShortBodies}
    \cup {<<UnionItem(b, <<BgpItem(PtTriple1)>>)>> : b \in PtShortBodies}

PtBodyInputs ==
    {TextInput(TRUE, FALSE, <<>>, b, BodyText(b), <<>>) : b \in PtBodies}

PtInputs == PtGroupByInputs \cup PtBodyInputs

InitParse ==
    /\ heap = EmptyHeap(MaxNodes)
    /\ \E input \in PtInputs : last = Called("text", input, "None")

\* SPARQLParser(preserve_nesting).parse_to_query(text)
ParseTextCall(preserve_nesting) ==
    /\ last.op = "text"
    /\ last' = Called("parse_text", <<last.arg, preserve_nesting>>,
                      ParseToQuery(QueryText(last.arg), preserve_nesting))
    /\ UNCHANGED heap

NextParse == \E preserve_nesting \in BOOLEAN : ParseTextCall(preserve_nesting)

SpecParse == InitParse /\ [][NextParse]_vars

\* the plain variables an input projects
ProjectedVariables(input) ==
    {input.projection[i].name :
        i \in {j \in 1..Len(input.projection) :
                 input.projection[j].kind = "variable"}}

\* C11: a text with a GROUP BY clause and a non-wildcard projection that
\* projects a plain variable outside the GROUP BY list is rejected with the
\* grouping-validation error and yields no Query, whether or not the SELECT
\* clause also holds aggregate expressions.
C11_GroupByValidation ==
    (/\ last.op = "parse_text"
     /\ last.arg[1].group_by # <<>>
     /\ ~last.arg[1].select_all
     /\ ProjectedVariables(last.arg[1]) \ SeqRange(last.arg[1].group_by) # {})
    => /\ ~last.ret.ok
       /\ last.ret.error = "OrderByValidationError"

\* C12: remove() on a node without a parent, and remove() called again on
\* the node that the call before it removed, returns False and leaves every
\* container as it was.
C12_RemoveDetachedIsNoOp ==
    [][(/\ last'.op = "remove"
        /\ \/ heap[last'.arg].parent = NULL
           \/ (last.op = "remove" /\ last.arg = last'.arg /\ last.ret = "True"))
       => (last'.ret = "False" /\ heap' = heap)
      ]_vars

(***************************************************************************)
(* SPARQLQuery.copy: copy.deepcopy(self).  deepcopy copies every object    *)
(* reachable from the Query through any attribute, the _parent references  *)
(* included, and points each reference of a copy at the copy of its target *)
(***************************************************************************)
MaxCopyAdds == 1  \* the objects that add() calls create after a copy()

\* the objects an object refers to: what it holds, and its _parent
Refs(h, n) == (Children(h, n) \cup {h[n].parent}) \ {NULL}

RECURSIVE ReachableFrom(_, _)
ReachableFrom(h, S) ==
    LET T == S \cup UNION {Refs(h, n) : n \in S}
    IN  IF T = S THEN S ELSE ReachableFrom(h, T)

\* a mutant of DeepCopy: copy.copy(self), a new Query object that shares
\* every attribute value with the original
ShallowCopy(h, q) == Ret([h EXCEPT ![NewId(h)] = h[q]], NewId(h))

\* copy.deepcopy(q): the heap with the copies, and the copy of q
DeepCopy(h, q) ==
    LET src == SortedSeq(ReachableFrom(h, {q}))
        dst == FreshIds(h, Len(src))
        memo(n) == IF n = NULL THEN NULL
                   ELSE dst[CHOOSE i \in 1..Len(src) : src[i] = n]
        CopyList(ids) == [i \in 1..Len(ids) |-> memo(ids[i])]
        CopyWhere(w) ==
            CASE w.tag = "Node" -> WNode(memo(w.id))
              [] w.tag = "List" -> WList(CopyList(w.items))
              [] OTHER -> w
        CopyOf(x) ==
            CASE x.kind = "BGP" ->
                   [x EXCEPT !.triples = CopyList(@), !.filters = CopyList(@),
                             !.parent = memo(@)]
              [] x.kind = "UnionOperator" ->
                   [x EXCEPT !.left = memo(@), !.right = memo(@),
                             !.parent = memo(@)]
              [] x.kind = "OptionalOperator" ->
                   [x EXCEPT !.bgp = memo(@), !.parent = memo(@)]
              [] x.kind = "GroupGraphPattern" ->
                   [x EXCEPT !.pattern = memo(@), !.filters = CopyList(@),
                             !.parent = memo(@)]
              [] x.kind = "SubQuery" ->
                   [x EXCEPT !.query = memo(@), !.parent = memo(@)]
              [] x.kind = "SPARQLQuery" ->
                   [x EXCEPT !.where_clause = CopyWhere(@),
                             !.filters = CopyList(@), !.parent = memo(@)]
              [] OTHER -> [x EXCEPT !.parent = memo(@)]
    IN  Ret([n \in DOMAIN h |->
               IF n \in SeqRange(dst)
               THEN CopyOf(h[src[CHOOSE i \in 1..Len(dst) : dst[i] = n]])
               ELSE h[n]],
            memo(q))

\* c = q.copy(), called on the Query just constructed or on one nested in it
Copy(q) ==
    /\ last.op = "init"
    /\ CanAlloc(heap, Cardinality(ReachableFrom(heap, {q})))
    /\ LET r == DeepCopy(heap, q)
       IN  /\ heap' = r.h
           /\ last' = Called("copy", q, r.ret)

(***************************************************************************)
(* The copy model: a Query built by one constructor expression and copied, *)
(* then add(), remove() and instantiate() calls in any order               *)
(***************************************************************************)
CopyTriple == <<Var("a"), Iri("p"), Var("b")>>

\* the mapping_dict of the instantiate() calls: {'a': 'x'}
CopyMapping == {<< <<"a">>, <<"x">> >>}

\* the heap after SPARQLQuery(projection_variables=proj, where_clause=W),
\* with room for the copy of its objects and for the objects added later
BuiltHeaps ==
    LET E(k) == EmptyHeap(2 * k + MaxCopyAdds)
    IN  UNION {
          { AllocQuery(E(1), proj, WNone),
            AllocQuery(AllocBGP(E(2), <<>>), proj, WNode(1)),
            AllocQuery(AllocBGP(E(3), <<CopyTriple>>), proj, WNode(1)),
            AllocQuery(AllocOptional(AllocBGP(E(3), <<>>), 1), proj, WNode(2)),
            AllocQuery(AllocSubQuery(AllocQuery(E(3), proj, WNone), 1), proj,
                       WNode(2)) } : proj \in ProjectionChoices }

InitCopy ==
    /\ heap \in BuiltHeaps
    /\ last = Called("init", NULL, "None")

NextCopy ==
    \/ \E q \in Queries(heap) : Copy(q)
    \/ /\ last.op # "init"
       /\ \/ \E n \in Removable(heap) : Remove(n)
          \/ \E b \in DOMAIN heap, t \in TripleChoices :
                heap[b].kind = "BGP" /\ BGPAdd(b, t)
          \/ \E b \in DOMAIN heap, e \in FilterChoices :
                heap[b].kind = "BGP" /\ BGPAddFilter(b, e)
          \/ \E q \in Queries(heap), e \in FilterChoices :
                QueryAddFilter(q, e)
          \/ \E q \in Queries(heap), order \in SetOrders :
                Instantiate(q, CopyMapping, order)

SpecCopy == InitCopy /\ [][NextCopy]_vars

\* a call of the copy model on the object n
OperationOn(n) ==
    \/ n \in Removable(heap) /\ Remove(n)
    \/ /\ heap[n].kind = "BGP"
       /\ \/ \E t \in TripleChoices : BGPAdd(n, t)
          \/ \E e \in FilterChoices : BGPAddFilter(n, e)
    \/ /\ heap[n].kind = "SPARQLQuery"
       /\ \/ \E e \in FilterChoices : QueryAddFilter(n, e)
          \/ \E order \in SetOrders : Instantiate(n, CopyMapping, order)

\* the Queries q and c share no object, directly or through any reference
Independent(h, q, c) == ReachableFrom(h, {q}) \cap ReachableFrom(h, {c}) = {}

\* C13: c = q.copy() leaves q as it was and gives a Query c with the same
\* tree that shares no object with q and whose nodes have their parent
\* inside c; from then on a call on c or on an object reached through c
\* changes no object of q, and the same with q and c exchanged.
C13_CopyIsIndependent ==
    [][/\ \A q \in Queries(heap) :
             Copy(q) =>
                 /\ Independent(heap', q, last'.ret)
                 /\ \A n \in ReachableFrom(heap, {q}) : heap'[n] = heap[n]
                 /\ QueryOf(heap', last'.ret) = QueryOf(heap', q)
                 /\ \A n \in Descendants(heap', last'.ret) \ {last'.ret} :
                       heap'[n].parent \in Descendants(heap', last'.ret)
       /\ \A q, c \in Queries(heap) :
             Independent(heap, q, c) =>
                 \A n \in ReachableFrom(heap, {c}) :
                     OperationOn(n) =>
                         /\ \A m \in ReachableFrom(heap, {q}) :
                               heap'[m] = heap[m]
                         /\ Independent(heap', q, c)
      ]_vars

\* a copy and its original after a call changed one of them
C13_Witness ==
    /\ last.op \in {"remove", "instantiate", "BGP.add"}
    /\ \E q, c \in Queries(heap) :
          /\ Independent(heap, q, c)
          /\ QueryOf(heap, q) # QueryOf(heap, c)
          /\ QueryOf(heap, c) # TQuery(TNone)


(***************************************************************************)
(* The projection left by instantiate()                                    *)
(***************************************************************************)
\* the variable tokens of an expression text: expression.split() words that
\* start with "?"
ExpressionVariables(e) == {w \in SeqRange(Words(e, <<>>)) : IsVar(w)}

\* every variable that occurs below node n: the variable terms of the
\* triples and the variable tokens of the filter expressions
VariablesBelow(h, n) ==
    UNION {CASE h[m].kind = "TriplePattern" ->
                  {t \in {h[m].subject, h[m].predicate, h[m].object} : IsVar(t)}
             [] h[m].kind = "Filter" -> ExpressionVariables(h[m].expression)
             [] OTHER -> {} : m \in Descendants(h, n)}

\* C14: instantiate(mapping) on a Query whose projection list P is not the
\* wildcard leaves P without the variables named by the mapping, in the
\* original order; when nothing is left, the projection is the set of all
\* variables that still occur in the tree, through every pattern variant
\* and in the filter expression texts.
C14_ProjectionAfterInstantiate ==
    [][\A q \in Queries(heap), md \in MappingChoices, order \in SetOrders :
         (Instantiate(q, md, order)
            /\ heap[q].projection_variables # DefaultProjection) =>
           LET kept == SelectSeq(heap[q].projection_variables,
                                 LAMBDA v : ~HasKey(md, StripSigil(v)))
               now == heap'[q].projection_variables
           IN  IF kept # <<>> THEN now = kept
               ELSE /\ SeqRange(now) = VariablesBelow(heap', q)
                    /\ Len(now) = Cardinality(SeqRange(now))]_vars


\* C15: a term that instantiate(mapping) replaces becomes the bound value
\* in angle brackets, and the bound value itself when that value is already
\* angle-bracketed (never "<<...>>").
C15_ReplacementIsBracketedOnce ==
    [][\A q \in Queries(heap), md \in MappingChoices, order \in SetOrders :
         Instantiate(q, md, order) =>
           \A n \in Descendants(heap, q) : heap[n].kind = "TriplePattern" =>
              \A pair \in { <<heap[n].subject, heap'[n].subject>>,
                            <<heap[n].predicate, heap'[n].predicate>>,
                            <<heap[n].object, heap'[n].object>> } :
                 pair[2] # pair[1] =>
                    LET value == Lookup(md, StripSigil(pair[1]))
                        bracketed == /\ Len(value) >= 2
                                     /\ value[1] = "<"
                                     /\ value[Len(value)] = ">"
                    IN  pair[2] = IF bracketed THEN value
                                  ELSE <<"<">> \o value \o <<">">>]_vars


(***************************************************************************)
(* is_isomorphic on Queries that carry filters and solution modifiers      *)
(***************************************************************************)
\* the triples of the trees compared: equal up to renaming, or different
ModTriple1 == <<Var("a"), Iri("p"), Iri("o")>>
ModTriple2 == <<Var("b"), Iri("p"), Iri("o")>>
ModTriple3 == <<Var("a"), Iri("q"), Iri("o")>>

ModSingles == {TBGP(<<t>>, <<>>) : t \in {ModTriple1, ModTriple2, ModTriple3}}

\* the where-pattern trees compared
ModTrees ==
    ModSingles
    \cup {TBGP(<<ModTriple1, ModTriple2>>, <<>>)}
    \cup {TOptional(b) : b \in ModSingles}
    \cup {TGroup(b, <<>>) : b \in ModSingles}
    \cup {TUnion(TBGP(<<ModTriple1>>, <<>>), TBGP(<<ModTriple3>>, <<>>)),
          TUnion(TBGP(<<ModTriple3>>, <<>>), TBGP(<<ModTriple2>>, <<>>)),
          TList(<<TBGP(<<ModTriple1>>, <<>>),
                  TGroup(TBGP(<<ModTriple3>>, <<>>), <<>>)>>)}

\* tree with bf as the filters of every BGP and gf as the filters of every
\* GroupGraphPattern (the filters arguments of the constructors)
RECURSIVE WithFilters(_, _, _)
WithFilters(t, bf, gf) ==
    CASE t.kind = "BGP" -> TBGP(t.triples, bf)
      [] t.kind = "UnionOperator" ->
           TUnion(WithFilters(t.left, bf, gf), WithFilters(t.right, bf, gf))
      [] t.kind = "OptionalOperator" -> TOptional(WithFilters(t.bgp, bf, gf))
      [] t.kind = "GroupGraphPattern" ->
           TGroup(WithFilters(t.pattern, bf, gf), gf)
      [] t.kind = "list" ->
           TList([k \in 1..Len(t.items) |-> WithFilters(t.items[k], bf, gf)])
      [] OTHER -> t

\* what a Query carries besides the triples and the structure of its tree
Modifiers(bf, gf, fs, hv, gb, ob, aggs, proj, d, lim, off) ==
    [bgp_filters |-> bf, group_filters |-> gf, filters |-> fs, having |-> hv,
     group_by |-> gb, order_by |-> ob, aggregations |-> aggs,
     projection_variables |-> proj, is_distinct |-> d, limit |-> lim,
     offset |-> off]

NoModifiers ==
    Modifiers(<<>>, <<>>, <<>>, <<>>, None, None, <<>>, DefaultProjection,
              FALSE, None, None)

ModFilter == <<"?", "a", " ", "<", " ", "7">>

ModChoices ==
    { NoModifiers,
      [NoModifiers EXCEPT !.bgp_filters = <<RtFilter>>],
      [NoModifiers EXCEPT !.bgp_filters = <<ModFilter>>],
      [NoModifiers EXCEPT !.bgp_filters = <<RtFilter, ModFilter>>],
      [NoModifiers EXCEPT !.group_filters = <<RtFilter>>],
      [NoModifiers EXCEPT !.filters = <<RtFilter>>],
      [NoModifiers EXCEPT !.having = <<ModFilter>>],
      [NoModifiers EXCEPT !.group_by = Some(<<Var("a")>>)],
      [NoModifiers EXCEPT !.order_by = Some(OrderBy(<<Var("a")>>, [bool |-> FALSE]))],
      [NoModifiers EXCEPT
          !.aggregations = <<AggregationExpression("COUNT", Var("a"), Var("n"), FALSE)>>],
      [NoModifiers EXCEPT !.projection_variables = <<Var("a")>>],
      [NoModifiers EXCEPT !.is_distinct = TRUE],
      [NoModifiers EXCEPT !.limit = Some(10)],
      [NoModifiers EXCEPT !.offset = Some(5)],
      Modifiers(<<ModFilter>>, <<ModFilter>>, <<ModFilter>>, <<RtFilter>>,
                Some(<<Var("b")>>), Some(OrderBy(<<Var("b")>>, [bool |-> TRUE])),
                <<AggregationExpression("SUM", Var("b"), Var("n"), TRUE)>>,
                <<Var("b")>>, TRUE, Some(10), Some(5)) }

\* SPARQLQuery(projection_variables, where_clause, filters, having, ...)
ModQuery(tree, mods) ==
    [having |-> mods.having]
    @@ QueryValue(mods.projection_variables,
                  WithFilters(tree, mods.bgp_filters, mods.group_filters),
                  mods.filters, mods.group_by, mods.order_by, mods.limit,
                  mods.offset, None, mods.is_distinct, mods.aggregations)

InitMod ==
    /\ heap = EmptyHeap(MaxNodes)
    /\ \E a \in ModTrees, b \in ModTrees, ma \in ModChoices, mb \in ModChoices :
          last = Called("queries", <<[tree |-> a, mods |-> ma],
                                     [tree |-> b, mods |-> mb]>>, "None")

\* A.is_isomorphic(B) on the two Queries drawn
ModIsIsomorphicCall ==
    /\ last.op = "queries"
    /\ last' = Called("is_isomorphic", last.arg,
                      IsIsomorphic(ModQuery(last.arg[1].tree, last.arg[1].mods),
                                   ModQuery(last.arg[2].tree, last.arg[2].mods)))
    /\ UNCHANGED heap

NextMod == ModIsIsomorphicCall

SpecMod == InitMod /\ [][NextMod]_vars

AddHeaps ==
    { AllocQuery(
        AllocSubQuery(
          AllocQuery(
            AllocGroup(
              AllocBGP(
                AllocOptional(
                  AllocBGP(
                    AllocUnion(
                      AllocBGP(
                        AllocBGP(
                          AllocBGP(EmptyHeap(12), <<CopyTriple>>),
                          <<>>),
                        <<>>),
                      3, 4),
                    <<>>),
                  6),
                <<>>),
              8),
            DefaultProjection, WNone),
          10),
        proj, WNone) : proj \in ProjectionChoices }

InitAdd ==
    /\ heap \in AddHeaps
    /\ last = Called("SPARQLQuery", <<12, <<>>>>, "None")

\* query.add(component) for a pattern; last.arg keeps the Query and the
\* patterns added to it so far, in the order of the calls
AddCall(c) ==
    /\ heap' = QueryAddPattern(heap, last.arg[1], c)
    /\ last' = Called("SPARQLQuery.add",
                      <<last.arg[1], Append(last.arg[2], c)>>, c)

NextAdd == \E c \in NewPatterns(heap) : AddCall(c)

SpecAdd == InitAdd /\ [][NextAdd]_vars

\* C17: after patterns p1..pn (n >= 1) were added by successive add()
\* calls to a Query that had no where-pattern, the where-pattern is p1
\* itself when n = 1 and the sequence [p1, ..., pn] when n >= 2, and every
\* pi has the Query as parent.
C17_AddPreservesArrivalOrder ==
    last.op = "SPARQLQuery.add" =>
        LET q == last.arg[1]
            added == last.arg[2]
        IN  /\ heap[q].where_clause =
                  IF Len(added) = 1 THEN WNode(added[1]) ELSE WList(added)
            /\ \A k \in 1..Len(added) : heap[added[k]].parent = q

C17_Witness ==
    /\ last.op = "SPARQLQuery.add"
    /\ Len(last.arg[2]) = 5
    /\ heap[last.arg[2][1]].kind = "SubQuery"
    /\ heap[last.arg[2][5]].kind = "BGP"


(***************************************************************************)
(* Claims about the WHERE clause the parser builds                         *)
(***************************************************************************)
\* C18: for a WHERE clause that holds a single BGP wrapped in k >= 1 extra
\* brace levels, parsing with preserve_nesting = True yields exactly k
\* nested GroupGraphPatterns around the BGP, for every k, and parsing with
\* preserve_nesting = False yields the bare BGP.
C18_NestingModes ==
    LET RECURSIVE Groups(_, _)
        Groups(t, k) == IF k = 0 THEN t ELSE TGroup(Groups(t, k - 1), <<>>)
        bgps == { <<BgpItem(PtTriple2)>>,
                  <<BgpItem(PtTriple2), BgpItem(PtTriple2)>> }
    IN  \A k \in 1..MaxBraces, b \in bgps :
          (last.op = "parse_text" /\ last.arg[1].shape = Nest(b, k)) =>
             /\ last.ret.ok
             /\ last.ret.query.where_clause =
                  Groups(TBGP([j \in 1..Len(b) |-> b[j].triple], <<>>),
                         IF last.arg[2] THEN k ELSE 0)


\* C19: the tree built for a text holds no sequence of fewer than two
\* patterns: a scope with exactly one pattern gives that pattern itself,
\* also when FILTERs stand next to a single Union, Optional or Group, and
\* only a scope with more than one pattern gives a sequence.  (Texts whose
\* WHERE braces hold at least one pattern.)
C19_OnePatternIsNotASequence ==
    LET RECURSIVE NoShortSequence(_)
        NoShortSequence(t) ==
            CASE t.kind = "list" ->
                   /\ Len(t.items) >= 2
                   /\ \A k \in 1..Len(t.items) : NoShortSequence(t.items[k])
              [] t.kind = "UnionOperator" ->
                   NoShortSequence(t.left) /\ NoShortSequence(t.right)
              [] t.kind = "OptionalOperator" -> NoShortSequence(t.bgp)
              [] t.kind = "GroupGraphPattern" -> NoShortSequence(t.pattern)
              [] OTHER -> TRUE
    IN  (/\ last.op = "parse_text"
         /\ last.ret.ok
         /\ \E k \in 1..Len(last.arg[1].shape) :
               last.arg[1].shape[k].kind # "filter")
        => NoShortSequence(last.ret.query.where_clause)


\* C20: parsing keeps every FILTER in the scope where it was written.  No
\* FILTER of the text is dropped: the Query and its tree hold as many
\* filters as the text; none is moved: the Query itself holds no more
\* filters than the WHERE braces hold directly; and a FILTER that follows
\* the triple patterns of a scope is in the filters of that scope's BGP
\* with its expression text.
C20_FiltersStayInTheirScope ==
    LET RECURSIVE FiltersWritten(_), FiltersHeld(_)
        FiltersWritten(items) ==
            IF items = <<>> THEN 0
            ELSE (CASE Head(items).kind = "filter" -> 1
                    [] Head(items).kind \in {"braced", "optional"} ->
                         FiltersWritten(Head(items).body)
                    [] Head(items).kind = "union" ->
                         FiltersWritten(Head(items).left)
                         + FiltersWritten(Head(items).right)
                    [] OTHER -> 0)
                 + FiltersWritten(Tail(items))
        FiltersHeld(t) ==
            CASE t.kind = "BGP" -> Len(t.filters)
              [] t.kind = "UnionOperator" ->
                   FiltersHeld(t.left) + FiltersHeld(t.right)
              [] t.kind = "OptionalOperator" -> FiltersHeld(t.bgp)
              [] t.kind = "GroupGraphPattern" ->
                   Len(t.filters) + FiltersHeld(t.pattern)
              [] t.kind = "list" ->
                   IF t.items = <<>> THEN 0
                   ELSE FiltersHeld(Head(t.items))
                        + FiltersHeld(TList(Tail(t.items)))
              [] OTHER -> 0
        shape == last.arg[1].shape
        query == last.ret.query
    IN  (last.op = "parse_text" /\ shape \in PtBodies) =>
           /\ last.ret.ok
           /\ FiltersHeld(query.where_clause) + Len(query.filters)
                = FiltersWritten(shape)
           /\ Len(query.filters)
                <= Cardinality({k \in 1..Len(shape) : shape[k].kind = "filter"})
           /\ shape = <<BgpItem(PtTriple2), FilterItem(PtFilter)>> =>
                 query.where_clause = TBGP(<<PtTriple2>>, <<PtFilter>>)


(***************************************************************************)
(* is_isomorphic on Queries whose where-pattern is a sequence              *)
(***************************************************************************)
\* what the sequences compared are made of
SeqElements ==
    ModSingles
    \cup {TOptional(b) : b \in ModSingles}
    \cup {TUnion(TBGP(<<ModTriple1>>, <<>>), TBGP(<<ModTriple3>>, <<>>))}

SeqTrees == {TList(items) : items \in UNION {[1..k -> SeqElements] : k \in 1..MaxSeqLen}}

InitSeq ==
    /\ heap = EmptyHeap(MaxNodes)
    /\ \E a \in SeqTrees, b \in SeqTrees :
          last = Called("input", <<TQuery(a), TQuery(b)>>, "None")

SpecSeq == InitSeq /\ [][NextCmp]_vars

\* the sequence with its elements in reverse order (two elements: swapped)
Reversed(items) == [k \in 1..Len(items) |-> items[Len(items) + 1 - k]]

DiGraphEdges(triples) == {<<t[1], t[3]>> : t \in SeqRange(triples)}

\* G.nodes
GraphNodes(E) == {e[1] : e \in E} \cup {e[2] : e \in E}

\* G.out_degree(n), G.in_degree(n)
OutDegree(E, n) == Cardinality({e \in E : e[1] = n})
InDegree(E, n) == Cardinality({e \in E : e[2] = n})

\* G.to_undirected()
ToUndirected(E) == {{e[1], e[2]} : e \in E}

\* G_undirected.degree(n): a self-loop counts twice
Degree(U, n) ==
    Cardinality({u \in U : n \in u}) + Cardinality({u \in U : u = {n}})

\* nx.node_connected_component(H, n): the nodes reachable from those in S
RECURSIVE NodeConnectedComponent(_, _)
NodeConnectedComponent(U, S) ==
    LET more == S \cup UNION {u \in U : u \cap S # {}}
    IN  IF more = S THEN S ELSE NodeConnectedComponent(U, more)

\* nx.is_tree(G): len(G) - 1 == G.number_of_edges() and is_connected(G)
IsTree(V, U) ==
    /\ Cardinality(V) - 1 = Cardinality(U)
    /\ \A n \in V : NodeConnectedComponent(U, {n}) = V

\* the branches of the hub whatever their length: every neighbour counts
StemsOfAnyLength(V, U, hub_node) ==
    Cardinality({n \in V \ {hub_node} : {hub_node, n} \in U})

\* the stems of the hub: for each neighbour, its component in the graph
\* without the hub, counted when it has more than one node and is a path
StemsFound(V, U, hub_node) ==
    LET H == {u \in U : hub_node \notin u}
        neighbors == {n \in V \ {hub_node} : {hub_node, n} \in U}
        IsStem(neighbor) ==
            LET component == NodeConnectedComponent(H, {neighbor})
                subgraph == {u \in H : u \subseteq component}
            IN  /\ Cardinality(component) > 1
                /\ \A n \in component : Degree(subgraph, n) <= 2
                /\ Cardinality({n \in component : Degree(subgraph, n) = 1}) = 2
    IN  Cardinality({n \in neighbors : IsStem(n)})

\* determine_graph_shape(triples)
DetermineGraphShape(triples) ==
    IF triples = <<>> THEN "Empty"
    ELSE IF Len(triples) = 1 THEN "Single-triple"
    ELSE
    LET G == DiGraphEdges(triples)
        V == GraphNodes(G)
        G_undirected == ToUndirected(G)
        endpoints == {n \in V : OutDegree(G, n) + InDegree(G, n) = 1}
        hub_nodes == {n \in V : Degree(G_undirected, n) > 2}
    IN  IF /\ Cardinality(V) = Len(triples)
           /\ \A n \in V : OutDegree(G, n) = 1 /\ InDegree(G, n) = 1
        THEN "Cycle"
        ELSE IF /\ \A n \in V : OutDegree(G, n) <= 1 /\ InDegree(G, n) <= 1
                /\ Cardinality(endpoints) = 2
        THEN "Path"
        ELSE IF /\ Cardinality({n \in V : Degree(G_undirected, n) > 1}) = 1
                /\ \A n \in V : Degree(G_undirected, n) = 1
                                \/ Degree(G_undirected, n) > 2
        THEN "Star"
        ELSE IF IsTree(V, G_undirected)
        THEN (IF hub_nodes = {} THEN "Path"
              ELSE IF /\ Cardinality(hub_nodes) = 1
                      /\ StemsFound(V, G_undirected,
                                    CHOOSE n \in hub_nodes : TRUE) = 1
              THEN "Flower"
              ELSE "Tree")
        ELSE "Complex"


(***************************************************************************)
(* Inputs of determine_graph_shape: the graphs of up to MaxShapeTriples    *)
(* triples over MaxShapeNodes terms (self-loops, opposite and parallel     *)
(* edges included) and every orientation of every tree of up to            *)
(* MaxTreeNodes nodes.                                                     *)
(***************************************************************************)
MaxShapeNodes == 4
MaxShapeTriples == 4
MaxTreeNodes == 6

ShapeNode(i) == Var(<<"a", "b", "c", "d", "e", "f", "g", "h">>[i])

\* the triples a graph is drawn from: one per ordered pair of nodes, then
\* two triples that repeat a subject and object under another predicate
ShapePoolSize == MaxShapeNodes * MaxShapeNodes + 2

ShapePool(i) ==
    IF i = MaxShapeNodes * MaxShapeNodes + 1
    THEN <<ShapeNode(1), Iri("q"), ShapeNode(2)>>
    ELSE IF i = MaxShapeNodes * MaxShapeNodes + 2
    THEN <<ShapeNode(1), Iri("q"), ShapeNode(3)>>
    ELSE <<ShapeNode(((i - 1) \div MaxShapeNodes) + 1), Iri("p"),
           ShapeNode(((i - 1) % MaxShapeNodes) + 1)>>

\* the strictly increasing sequences of k numbers of 1..n
RECURSIVE IncreasingSeqs(_, _)
IncreasingSeqs(k, n) ==
    IF k = 0 THEN {<<>>}
    ELSE UNION {{Append(s, m) : s \in IncreasingSeqs(k - 1, m - 1)} : m \in k..n}

ShapeGraphs ==
    {[j \in 1..Len(s) |-> ShapePool(s[j])] :
        s \in UNION {IncreasingSeqs(k, ShapePoolSize) : k \in 0..MaxShapeTriples}}

\* node i > 1 hangs below an earlier node; each edge points either way
ShapeTrees ==
    UNION {{[j \in 1..(n - 1) |->
                IF down[j + 1]
                THEN <<ShapeNode(parent[j + 1]), Iri("p"), ShapeNode(j + 1)>>
                ELSE <<ShapeNode(j + 1), Iri("p"), ShapeNode(parent[j + 1])>>] :
              parent \in {f \in [2..n -> 1..(n - 1)] : \A k \in 2..n : f[k] < k},
              down \in [2..n -> BOOLEAN]} : n \in 3..MaxTreeNodes}

InitShape ==
    /\ heap = EmptyHeap(MaxNodes)
    /\ \E triples \in ShapeGraphs \cup ShapeTrees :
          last = Called("triples", triples, "None")

DetermineGraphShapeCall ==
    /\ last.op = "triples"
    /\ last' = Called("determine_graph_shape", last.arg,
                      DetermineGraphShape(last.arg))
    /\ UNCHANGED heap

NextShape == DetermineGraphShapeCall

SpecShape == InitShape /\ [][NextShape]_vars

\* C22: each triple read as one edge of a multigraph, a set of two or more
\* triples is classified "Star" exactly when one node has undirected degree
\* greater than 1 and every other node has degree 1.
C22_StarIffOneCentre ==
    LET triples == last.arg
        nodes == {t[1] : t \in SeqRange(triples)} \cup {t[3] : t \in SeqRange(triples)}
        deg(n) == Cardinality({k \in 1..Len(triples) : triples[k][1] = n})
                  + Cardinality({k \in 1..Len(triples) : triples[k][3] = n})
        centres == {n \in nodes : deg(n) > 1}
    IN  (last.op = "determine_graph_shape" /\ Len(triples) >= 2) =>
           (last.ret = "Star" <=>
               (Cardinality(centres) = 1 /\ \A n \in nodes \ centres : deg(n) = 1))

\* C23: a set of two or more triples whose graph has a cycle (a self-loop
\* and a pair of edges between the same two nodes included) and that is not
\* a strict Cycle is classified "Complex".
C23_CyclicIsComplex ==
    LET triples == last.arg
        nodes == {t[1] : t \in SeqRange(triples)} \cup {t[3] : t \in SeqRange(triples)}
        links == {{t[1], t[3]} : t \in SeqRange(triples)}
        components == {NodeConnectedComponent(links, {n}) : n \in nodes}
        out(n) == Cardinality({k \in 1..Len(triples) : triples[k][1] = n})
        in(n) == Cardinality({k \in 1..Len(triples) : triples[k][3] = n})
        cyclic == Len(triples) > Cardinality(nodes) - Cardinality(components)
        strict == /\ Cardinality(nodes) = Len(triples)
                  /\ \A n \in nodes : out(n) = 1 /\ in(n) = 1
    IN  (last.op = "determine_graph_shape" /\ Len(triples) >= 2
            /\ cyclic /\ ~strict) => last.ret = "Complex"


\* C29: a set of two or more triples whose undirected graph is connected
\* and acyclic, and that is not classified "Star", is a "Path" when no node
\* has degree greater than 2, a "Flower" when exactly one node has and
\* exactly one of the branches attached to it has two nodes or more, and a
\* "Tree" in every other case.
C29_TreeFamily ==
    LET triples == last.arg
        nodes == {t[1] : t \in SeqRange(triples)} \cup {t[3] : t \in SeqRange(triples)}
        links == {{t[1], t[3]} : t \in SeqRange(triples)}
        deg(n) == Cardinality({k \in 1..Len(triples) : triples[k][1] = n})
                  + Cardinality({k \in 1..Len(triples) : triples[k][3] = n})
        acyclic == Len(triples) = Cardinality(nodes) - 1
        connected == \A n \in nodes : NodeConnectedComponent(links, {n}) = nodes
        hubs == {n \in nodes : deg(n) > 2}
        branch(hub, n) == NodeConnectedComponent({l \in links : hub \notin l}, {n})
        long(hub) == {n \in nodes : {hub, n} \in links /\ n # hub
                                    /\ Cardinality(branch(hub, n)) >= 2}
        expected == IF hubs = {} THEN "Path"
                    ELSE IF Cardinality(hubs) = 1
                            /\ \A hub \in hubs : Cardinality(long(hub)) = 1
                    THEN "Flower"
                    ELSE "Tree"
    IN  (last.op = "determine_graph_shape" /\ Len(triples) >= 2
            /\ acyclic /\ connected /\ last.ret # "Star")
           => last.ret = expected

\* a hub with two leaves and one branch of two nodes is a "Flower"
C29_Witness ==
    /\ last.op = "determine_graph_shape"
    /\ Len(last.arg) = 4
    /\ last.ret = "Flower"


(***************************************************************************)
(* to_query_string on the Queries the mutation API builds.  The fields the *)
(* mutation model does not hold (group_by, order_by, limit, offset, graph, *)
(* is_distinct, aggregations) have their constructor defaults.             *)
(***************************************************************************)
RECURSIVE WithConstructorDefaults(_)
WithConstructorDefaults(t) ==
    CASE t.kind = "SPARQLQuery" ->
           QueryValue(DefaultProjection, WithConstructorDefaults(t.where_clause),
                      <<>>, None, None, None, None, None, FALSE, <<>>)
      [] t.kind = "UnionOperator" ->
           TUnion(WithConstructorDefaults(t.left), WithConstructorDefaults(t.right))
      [] t.kind = "OptionalOperator" -> TOptional(WithConstructorDefaults(t.bgp))
      [] t.kind = "GroupGraphPattern" ->
           TGroup(WithConstructorDefaults(t.pattern), t.filters)
      [] t.kind = "SubQuery" -> TSubQuery(WithConstructorDefaults(t.query))
      [] t.kind = "list" ->
           TList([k \in 1..Len(t.items) |-> WithConstructorDefaults(t.items[k])])
      [] OTHER -> t

\* C24: after any sequence of constructor, add and remove calls,
\* to_query_string() of every Query completes without raising the
\* unknown-clause ValueError, a Query whose where-pattern is None included.
C24_ToQueryStringNeverRaises ==
    \A q \in Queries(heap) :
        ToQueryString(WithConstructorDefaults(QueryOf(heap, q))).ok


(***************************************************************************)
(* ORDER BY.  order_by is None or Some(OrderBy(variables, ascending));     *)
(* ascending is [bool |-> b] or [list |-> flags], as in OrderByText.  The  *)
(* variables argument of add_order_by is None, Some(<<v>>) for one string  *)
(* or a list given as Some(vs).                                            *)
(***************************************************************************)
MaxOrderVars == 3

\* OrderBy.add(variable, ascending)
OrderByAdd(ob, variable, ascending) ==
    LET variables == Append(ob.variables, variable)
    IN  IF "bool" \in DOMAIN ob.ascending
        THEN (IF Len(variables) > 1
              THEN OrderBy(variables,
                           [list |-> Append([k \in 1..(Len(variables) - 1) |->
                                                ob.ascending.bool], ascending)])
              ELSE OrderBy(variables, ob.ascending))
        ELSE OrderBy(variables, [list |-> Append(ob.ascending.list, ascending)])

\* for i, var in enumerate(variables): self.order_by.add(var, asc), for a
\* list of flags that is as long as the list of variables
RECURSIVE OrderByAddAll(_, _, _, _)
OrderByAddAll(ob, variables, ascending, i) ==
    IF i > Len(variables) THEN ob
    ELSE LET asc == IF "list" \in DOMAIN ascending
                    THEN ascending.list[i] ELSE ascending.bool
         IN  OrderByAddAll(OrderByAdd(ob, variables[i], asc),
                           variables, ascending, i + 1)

\* SPARQLQuery.add_order_by(variables, ascending): the order_by it leaves
AddOrderBy(order_by, variables, ascending) ==
    LET vs == IF variables = None THEN <<>> ELSE variables[1]
    IN  IF order_by = None THEN Some(OrderBy(vs, ascending))
        ELSE Some(OrderByAddAll(order_by[1], vs, ascending, 1))

OrderVars == {Var("a"), Var("b"), Var("c")}

\* one flag for all the variables, or one flag per variable
OrderRequests ==
    UNION {{[variables |-> vs, ascending |-> [bool |-> b]] : b \in BOOLEAN}
           \cup {[variables |-> vs, ascending |-> [list |-> fs]] :
                    fs \in [1..Len(vs) -> BOOLEAN]} :
             vs \in UNION {[1..k -> OrderVars] : k \in 1..2}}

\* the variables asked for so far with the direction asked for each
Requested(vs, ascending) ==
    [k \in 1..Len(vs) |->
        <<vs[k], IF "list" \in DOMAIN ascending
                 THEN ascending.list[k] ELSE ascending.bool>>]

InitOrder ==
    /\ heap = EmptyHeap(MaxNodes)
    /\ last = Called("SPARQLQuery", <<>>, None)

\* q.add_order_by() and q.add_order_by(variables, ascending)
AddOrderByCall ==
    /\ UNCHANGED heap
    /\ \/ last' = Called("add_order_by", last.arg,
                         AddOrderBy(last.ret, None, [bool |-> TRUE]))
       \/ \E r \in OrderRequests :
             /\ Len(last.arg) + Len(r.variables) <= MaxOrderVars
             /\ last' = Called("add_order_by",
                               last.arg \o Requested(r.variables, r.ascending),
                               AddOrderBy(last.ret, Some(r.variables), r.ascending))

\* q.order_by.add(variable, ascending)
OrderByAddCall ==
    /\ last.ret # None
    /\ Len(last.arg) < MaxOrderVars
    /\ UNCHANGED heap
    /\ \E v \in OrderVars, b \in BOOLEAN :
          last' = Called("OrderBy.add", Append(last.arg, <<v, b>>),
                         Some(OrderByAdd(last.ret[1], v, b)))

NextOrder == AddOrderByCall \/ OrderByAddCall

SpecOrder == InitOrder /\ [][NextOrder]_vars

\* C30: after any sequence of add_order_by and OrderBy.add calls on a Query
\* that had no ORDER BY, every variable is serialized in insertion order
\* with the direction asked for when it was added, and a list of flags is
\* as long as the list of variables.
C30_OneDirectionPerVariable ==
    last.ret # None =>
        LET ob == last.ret[1]
        IN  /\ OrderByText(ob)
                 = Concat([k \in 1..Len(last.arg) |->
                             <<Kw(IF last.arg[k][2] THEN "ASC" ELSE "DESC"),
                               Kw("("), last.arg[k][1], Kw(")")>>])
            /\ "list" \in DOMAIN ob.ascending
                  => Len(ob.ascending.list) = Len(ob.variables)


(***************************************************************************)
(* is_isomorphic in both directions.  Each Query is a sequence of a BGP of *)
(* four triples, in any order, and a BGP of one triple; renaming a to b    *)
(* and b to a maps the set of the four triples onto itself.                *)
(***************************************************************************)
SymTriples ==
    { <<Var("a"), Iri("p"), Iri("o")>>, <<Var("a"), Iri("q"), Iri("o")>>,
      <<Var("b"), Iri("q"), Iri("o")>>, <<Var("b"), Iri("p"), Iri("o")>> }

SymSecond == { <<Var("a"), Iri("r"), Iri("o")>>, <<Var("b"), Iri("r"), Iri("o")>> }

SymTrees ==
    {TList(<<TBGP(ts, <<>>), TBGP(<<t>>, <<>>)>>) :
        ts \in InjSeqs(SymTriples, Cardinality(SymTriples)), t \in SymSecond}

InitSym ==
    /\ heap = EmptyHeap(MaxNodes)
    /\ \E a \in SymTrees, b \in SymTrees :
          last = Called("input", <<TQuery(a), TQuery(b)>>, "None")

SpecSym == InitSym /\ [][NextCmp]_vars

\* C25: A.is_isomorphic(B) and B.is_isomorphic(A) return the same value.
C25_IsIsomorphicIsSymmetric ==
    last.op = "is_isomorphic" =>
        last.ret = IsIsomorphic(last.arg[2], last.arg[1])


\* C26: parsing loses and reorders no pattern element.  The tree built for a
\* text holds as many triple patterns, OptionalOperators and UnionOperators
\* as the text has triple patterns, OPTIONALs and UNIONs, and the Optionals
\* and Unions written directly inside the WHERE braces stand in the tree in
\* the order of the text.
C26_NoElementLostOrReordered ==
    LET RECURSIVE InText(_, _), InTree(_, _)
        InText(items, kind) ==
            IF items = <<>> THEN 0
            ELSE (IF Head(items).kind = kind THEN 1 ELSE 0)
                 + (CASE Head(items).kind \in {"braced", "optional"} ->
                           InText(Head(items).body, kind)
                      [] Head(items).kind = "union" ->
                           InText(Head(items).left, kind)
                           + InText(Head(items).right, kind)
                      [] OTHER -> 0)
                 + InText(Tail(items), kind)
        InTree(t, kind) ==
            (IF t.kind = kind THEN 1 ELSE 0)
            + (CASE t.kind = "BGP" -> IF kind = "triple" THEN Len(t.triples) ELSE 0
                 [] t.kind = "UnionOperator" -> InTree(t.left, kind) + InTree(t.right, kind)
                 [] t.kind = "OptionalOperator" -> InTree(t.bgp, kind)
                 [] t.kind = "GroupGraphPattern" -> InTree(t.pattern, kind)
                 [] t.kind = "list" ->
                      IF t.items = <<>> THEN 0
                      ELSE InTree(Head(t.items), kind) + InTree(TList(Tail(t.items)), kind)
                 [] OTHER -> 0)
        shape == last.arg[1].shape
        tree == last.ret.query.where_clause
        top == IF tree.kind = "list" THEN tree.items ELSE <<tree>>
        KindsWritten ==
            SelectSeq([k \in 1..Len(shape) |->
                          CASE shape[k].kind = "optional" -> "OptionalOperator"
                            [] shape[k].kind = "union" -> "UnionOperator"
                            [] OTHER -> "other"],
                      LAMBDA x : x # "other")
        KindsHeld ==
            SelectSeq([k \in 1..Len(top) |-> top[k].kind],
                      LAMBDA x : x \in {"OptionalOperator", "UnionOperator"})
    IN  (last.op = "parse_text" /\ last.ret.ok /\ last.arg[1].shape \in PtBodies) =>
           /\ InTree(tree, "triple") = InText(shape, "bgp")
           /\ InTree(tree, "OptionalOperator") = InText(shape, "optional")
           /\ InTree(tree, "UnionOperator") = InText(shape, "union")
           /\ KindsHeld = KindsWritten


(***************************************************************************)
(* One step of a comparison: _compare_clauses called on two trees with the *)
(* variable mapping the steps before it have left, any partial injective   *)
(* mapping of the variable names.                                          *)
(***************************************************************************)
IsPartialInjective(m) ==
    \A p1, p2 \in m : (p1[1] = p2[1]) <=> (p1[2] = p2[2])

StepMappings ==
    {m \in SUBSET (CmpVarNames \X CmpVarNames) : IsPartialInjective(m)}

InitStep ==
    /\ heap = EmptyHeap(MaxNodes)
    /\ \E a \in CmpTrees, b \in CmpTrees, m \in StepMappings :
          last = Called("input", <<a, b, m>>, "None")

CompareClausesCall ==
    /\ last.op = "input"
    /\ last' = Called("_compare_clauses", last.arg,
                      CompareClauses(last.arg[1], last.arg[2], last.arg[3]))
    /\ UNCHANGED heap

NextStep == CompareClausesCall

SpecStep == InitStep /\ [][NextStep]_vars

\* the mapping m as a renaming of the variable names of the tree t
AsRenaming(m, t) ==
    [x \in VarNamesOf(t) |-> IF HasKey(m, x) THEN Lookup(m, x) ELSE <<>>]

\* some injective mapping that extends m makes t1 and t2 identical
ExistsExtension(t1, t2, m) ==
    \E r \in InjectiveRenamings(VarNamesOf(t1) \cup {p[1] : p \in m},
                                CmpVarNames) :
        /\ \A p \in m : r[p[1]] = p[2]
        /\ Identical(t1, t2, r)

\* C27: a failed attempt leaves the variable mapping untouched.  A
\* comparison of two BGPs, or of two UNIONs of BGPs, that fails returns the
\* mapping it was given; and it succeeds whenever some injective extension
\* of that mapping matches the two, whatever candidates and orientations
\* were tried and given up before.
C27_FailedAttemptLeavesMapping ==
    LET c1 == last.arg[1]
        c2 == last.arg[2]
        m == last.arg[3]
        flat == \/ c1.kind = "BGP" /\ c2.kind = "BGP"
                \/ /\ c1.kind = "UnionOperator" /\ c2.kind = "UnionOperator"
                   /\ \A x \in {c1.left, c1.right, c2.left, c2.right} :
                         x.kind = "BGP"
    IN  (last.op = "_compare_clauses" /\ flat) =>
           /\ ~last.ret.ok => last.ret.m = m
           /\ last.ret.ok <=> ExistsExtension(c1, c2, m)

\* two BGPs matched after the first candidate had bound a variable and
\* failed on a later term
C27_Witness ==
    /\ last.op = "_compare_clauses"
    /\ last.arg[1].kind = "BGP" /\ last.arg[2].kind = "BGP"
    /\ Len(last.arg[1].triples) = 2 /\ Len(last.arg[2].triples) = 2
    /\ last.ret.ok
    /\ LET first == CompareTriplePatterns(last.arg[1].triples[1],
                                          last.arg[2].triples[1], last.arg[3])
       IN  ~first.ok /\ first.m # last.arg[3]

\* C28: the variable mapping is a partial injective function at every step,
\* a binding once made is never changed, and when the comparison succeeds
\* the two trees are identical under the mapping it leaves.
C28_MappingIsPartialInjective ==
    last.op = "_compare_clauses" =>
        /\ IsPartialInjective(last.ret.m)
        /\ last.arg[3] \subseteq last.ret.m
        /\ last.ret.ok =>
              /\ \A x \in VarNamesOf(last.arg[1]) : HasKey(last.ret.m, x)
              /\ Identical(last.arg[1], last.arg[2],
                           AsRenaming(last.ret.m, last.arg[1]))

\* a sequence matched under a mapping that already held one binding and
\* now holds two
C28_Witness ==
    /\ last.op = "_compare_clauses"
    /\ last.arg[1].kind = "list"
    /\ Cardinality(last.arg[3]) = 1
    /\ last.ret.ok
    /\ Cardinality(last.ret.m) = 2

====
